---------------------------- MODULE Spec2Model ----------------------------
(***************************************************************************)
(* REST-CRUD-Demo: the Express API (src/API/app.js), its MVC variant       *)
(* (src/API/routes/items.js with the controllers, model and validator of   *)
(* the same variant) and the auth helpers (API/auth.js, API/config.js).    *)
(*                                                                         *)
(* Every request is served by an async handler.  A handler runs without    *)
(* interruption from one `await` to the next, so each action below is the  *)
(* code between two awaits; handlers of different requests interleave at   *)
(* those points.  The two Firestore collections are the only shared state. *)
(*                                                                         *)
(* Strings are sequences of one-character strings, so that length, trim,   *)
(* the e-mail pattern and parseFloat are computed and not assumed.         *)
(* Prices are integers (no fractional part occurs in the inputs).          *)
(***************************************************************************)
EXTENDS Integers, Sequences, FiniteSets, TLC

VARIABLES
    users,        \* the users collection: document id -> document
    items,        \* the items collection: document id -> document
    nextItemId,   \* the next fresh document id of the items collection
    issued,       \* the tokens clients hold
    now,          \* the clock, in hours
    req,          \* the requests in flight, one per task
    last,         \* the request answered last, with its response
    nreq,         \* how many requests have been received
    regOverlap,   \* history: two registrations were in flight together
    registered,   \* history: the registrations answered 201
    failures,     \* history: the 401 answers of POST /login, by cause
    \* the browser client (CLIENT/js/main.js)
    authToken,            \* let authToken
    currentUser,          \* let currentUser
    localStorage,         \* the entries 'authToken' and 'currentUser'
    display,              \* style.display of the three sections
    productsContainer,    \* what the products container shows
    alerted,              \* the text of the last alert()
    calls,                \* the calls of the client's async functions in flight
    \* the Vue client (stores/products.js and the views)
    storeItems,           \* items.value of the products store
    isLoading,            \* isLoading.value of the products store
    storeError,           \* error.value of the products store
    unsubscribeFromItems, \* the listener whose unsubscribe function is held
    listeners,            \* the snapshot listeners registered with Firestore
    nextListener,         \* the next listener onSnapshot registers
    acts,                 \* the store actions in flight, with the view waiting
    route,                \* the router's current path
    errorMessage,         \* errorMessage.value of the view shown
    busy,                 \* the views' isLoading / isUpdating / isDeleting
    viewItem,             \* the detail view has its item
    finished              \* history: the store action that returned last

serverVars == <<users, items, nextItemId, issued, now, req, last, nreq,
                regOverlap, registered, failures>>

pageVars == <<authToken, currentUser, localStorage, display, productsContainer,
              alerted, calls>>

vueVars == <<storeItems, isLoading, storeError, unsubscribeFromItems,
             listeners, nextListener, acts, route, errorMessage, busy,
             viewItem, finished>>

clientVars == <<pageVars, vueVars>>

vars == <<serverVars, clientVars>>

(***************************************************************************)
(* Bounds of the model                                                     *)
(***************************************************************************)
NumProcs == 2
MaxTokens == 2
MaxAuthRequests == 3
MaxItemRequests == 2
MaxTicks == 1
HourStep == 24
NumSalts == 1
NumCalls == 2
NumActs == 2
MaxListeners == 3

Procs == 1..NumProcs
\* Every request creates at most one item, next to the one an earlier run left
ItemIds == 1..(MaxItemRequests + 1)
Salts == 1..NumSalts

(***************************************************************************)
(* Program constants                                                       *)
(***************************************************************************)
JWT_SECRET == "your-super-secret-jwt-key-change-this-in-production"
JWT_EXPIRES_IN == 24
MinPasswordLength == 6
MaxNameLength == 100

(***************************************************************************)
(* JSON values of a request body                                           *)
(***************************************************************************)
Undef == [t |-> "undef", s |-> <<>>, n |-> 0]
NaN == [t |-> "nan", s |-> <<>>, n |-> 0]
Str(cs) == [t |-> "str", s |-> cs, n |-> 0]
Num(k) == [t |-> "num", s |-> <<>>, n |-> k]

\* JavaScript truthiness: undefined, "", 0 and NaN are falsy
Falsy(v) ==
    \/ v.t = "undef"
    \/ v.t = "nan"
    \/ v.t = "str" /\ v.s = <<>>
    \/ v.t = "num" /\ v.n = 0

Digits == <<"0", "1", "2", "3", "4", "5", "6", "7", "8", "9">>
IsDigit(c) == \E d \in 1..10 : Digits[d] = c
DigitVal(c) == (CHOOSE d \in 1..10 : Digits[d] = c) - 1
IsSpace(c) == c \in {" ", "\t", "\n"}

RECURSIVE DigitPrefixLen(_, _)
DigitPrefixLen(cs, i) ==
    IF i <= Len(cs) /\ IsDigit(cs[i]) THEN 1 + DigitPrefixLen(cs, i + 1) ELSE 0

RECURSIVE DigitsValue(_, _, _)
DigitsValue(cs, i, k) ==
    IF k = 0 THEN 0
    ELSE DigitsValue(cs, i, k - 1) * 10 + DigitVal(cs[i + k - 1])

RECURSIVE SkipSpaces(_, _)
SkipSpaces(cs, i) ==
    IF i <= Len(cs) /\ IsSpace(cs[i]) THEN SkipSpaces(cs, i + 1) ELSE i

\* String(v) as JavaScript converts a number to a string
RECURSIVE NatToStr(_)
NatToStr(k) ==
    IF k < 10 THEN <<Digits[k + 1]>>
    ELSE NatToStr(k \div 10) \o <<Digits[(k % 10) + 1]>>

ToStr(v) ==
    CASE v.t = "str" -> v.s
      [] v.t = "num" -> IF v.n < 0 THEN <<"-">> \o NatToStr(0 - v.n) ELSE NatToStr(v.n)
      [] v.t = "nan" -> <<"N", "a", "N">>
      [] OTHER -> <<>>

\* parseFloat: leading white space, an optional sign, the longest digit prefix
ParseFloatStr(cs) ==
    LET i0 == SkipSpaces(cs, 1)
        neg == i0 <= Len(cs) /\ cs[i0] = "-"
        i1 == IF i0 <= Len(cs) /\ cs[i0] \in {"-", "+"} THEN i0 + 1 ELSE i0
        k == DigitPrefixLen(cs, i1)
    IN  IF k = 0 THEN NaN
        ELSE IF neg THEN Num(0 - DigitsValue(cs, i1, k))
        ELSE Num(DigitsValue(cs, i1, k))

ParseFloat(v) ==
    CASE v.t = "num" -> v
      [] v.t = "str" -> ParseFloatStr(v.s)
      [] OTHER -> NaN

(***************************************************************************)
(* API/auth.js: password hashing and tokens                                *)
(***************************************************************************)
NoHash == [salt |-> 0, digest |-> <<>>]

\* bcrypt.hash(password, salt): the digest is a function of salt and password
BcryptHash(pw, salt) == [salt |-> salt, digest |-> <<salt>> \o pw]

hashPassword(pw, salt) == BcryptHash(pw, salt)

\* A comparison that accepts any password for a stored hash
comparePasswordAny(pw, h) == h.salt # 0

comparePassword(pw, h) == h.salt # 0 /\ BcryptHash(pw, h.salt) = h

NoToken == [userId |-> 0, email |-> <<>>, iat |-> 0, exp |-> 0, sig |-> ""]
Null == [nil |-> TRUE, userId |-> 0, email |-> <<>>, iat |-> 0, exp |-> 0]

\* jwt.sign(payload, secret, {expiresIn})
JwtSign(userId, email, secret, expiresIn, t) ==
    [userId |-> userId, email |-> email, iat |-> t, exp |-> t + expiresIn,
     sig |-> secret]

generateToken(id, email, t) == JwtSign(id, email, JWT_SECRET, JWT_EXPIRES_IN, t)

Payload(tok) ==
    [nil |-> FALSE, userId |-> tok.userId, email |-> tok.email,
     iat |-> tok.iat, exp |-> tok.exp]

(***************************************************************************)
(* The Authorization header: a string made of scheme words, spaces and     *)
(* tokens.  A token is kept as its decoded structure plus the key that     *)
(* signed it.                                                              *)
(***************************************************************************)
SP == [a |-> "sp", w |-> " ", tok |-> NoToken]
W(w) == [a |-> "word", w |-> w, tok |-> NoToken]
J(tok) == [a |-> "jwt", w |-> "", tok |-> tok]

NoHeader == [present |-> FALSE, atoms |-> <<>>]
Hdr(atoms) == [present |-> TRUE, atoms |-> atoms]

\* String.prototype.split(' ')
RECURSIVE Split(_)
Split(as) ==
    IF \A i \in 1..Len(as) : as[i].a # "sp" THEN <<as>>
    ELSE LET i == CHOOSE j \in 1..Len(as) :
                     as[j].a = "sp" /\ \A k \in 1..(j - 1) : as[k].a # "sp"
         IN  <<SubSeq(as, 1, i - 1)>> \o Split(SubSeq(as, i + 1, Len(as)))

\* A verification that ignores the expiry
JwtVerifyNoExpiry(seg, secret, t) ==
    IF Len(seg) # 1 \/ seg[1].a # "jwt" THEN [threw |-> TRUE, payload |-> Null]
    ELSE IF seg[1].tok.sig # secret THEN [threw |-> TRUE, payload |-> Null]
    ELSE [threw |-> FALSE, payload |-> Payload(seg[1].tok)]

\* jwt.verify(token, secret): throws on a malformed token, a bad signature or
\* an expired token, otherwise returns the payload
JwtVerify(seg, secret, t) ==
    IF Len(seg) # 1 \/ seg[1].a # "jwt" THEN [threw |-> TRUE, payload |-> Null]
    ELSE IF seg[1].tok.sig # secret THEN [threw |-> TRUE, payload |-> Null]
    ELSE IF t >= seg[1].tok.exp THEN [threw |-> TRUE, payload |-> Null]
    ELSE [threw |-> FALSE, payload |-> Payload(seg[1].tok)]

\* verifyToken without its try/catch: the exception of jwt.verify escapes
verifyTokenNoCatch(seg, t) ==
    LET r == JwtVerify(seg, JWT_SECRET, t)
    IN  [threw |-> r.threw, value |-> IF r.threw THEN Null ELSE r.payload]

\* try { return jwt.verify(token, JWT_SECRET) } catch (error) { return null }
verifyToken(seg, t) ==
    LET r == JwtVerify(seg, JWT_SECRET, t)
    IN  [threw |-> FALSE, value |-> IF r.threw THEN Null ELSE r.payload]

\* A guard that takes any header that is present as carrying a token
TokenSegmentAnyHeader(hdr) ==
    IF ~hdr.present THEN [truthy |-> FALSE, seg |-> <<>>]
    ELSE LET segs == Split(hdr.atoms)
         IN  [truthy |-> TRUE, seg |-> IF Len(segs) < 2 THEN <<>> ELSE segs[2]]

\* A guard that takes a token only from a header whose scheme word is Bearer
TokenSegmentBearerOnly(hdr) ==
    IF ~hdr.present \/ hdr.atoms = <<>> THEN [truthy |-> FALSE, seg |-> <<>>]
    ELSE LET segs == Split(hdr.atoms)
         IN  IF Len(segs) < 2 \/ segs[1] # <<W("Bearer")>>
             THEN [truthy |-> FALSE, seg |-> <<>>]
             ELSE [truthy |-> segs[2] # <<>>, seg |-> segs[2]]

\* authHeader && authHeader.split(' ')[1], as present / absent plus the segment
TokenSegment(hdr) ==
    IF ~hdr.present \/ hdr.atoms = <<>> THEN [truthy |-> FALSE, seg |-> <<>>]
    ELSE LET segs == Split(hdr.atoms)
         IN  IF Len(segs) < 2 THEN [truthy |-> FALSE, seg |-> <<>>]
             ELSE [truthy |-> segs[2] # <<>>, seg |-> segs[2]]

\* A guard without the check of the decoded value
validateTokenLax(hdr, t) ==
    LET token == TokenSegment(hdr)
    IN  IF ~token.truthy
        THEN [status |-> 401, error |-> "No token found", user |-> Null,
              next |-> FALSE]
        ELSE [status |-> 0, error |-> "", user |-> verifyToken(token.seg, t).value,
              next |-> TRUE]

\* A guard that also looks the decoded user up in the users collection
validateTokenKnownUser(hdr, t) ==
    LET token == TokenSegment(hdr)
    IN  IF ~token.truthy
        THEN [status |-> 401, error |-> "No token found", user |-> Null,
              next |-> FALSE]
        ELSE LET decoded == verifyToken(token.seg, t)
             IN  IF decoded.value.nil
                    \/ \A i \in 1..Len(users) : users[i].id # decoded.value.userId
                 THEN [status |-> 403, error |-> "Invalid or expired token",
                       user |-> Null, next |-> FALSE]
                 ELSE [status |-> 0, error |-> "", user |-> decoded.value,
                       next |-> TRUE]

\* The guard: the response it sends (status 0: none), the identity it attaches
\* and whether it calls next()
validateToken(hdr, t) ==
    LET token == TokenSegment(hdr)
    IN  IF ~token.truthy
        THEN [status |-> 401, error |-> "No token found", user |-> Null,
              next |-> FALSE]
        ELSE LET decoded == verifyToken(token.seg, t)
             IN  IF decoded.threw
                 THEN \* an exception leaving a middleware: Express answers 500
                      [status |-> 500, error |-> "Internal Server Error",
                       user |-> Null, next |-> FALSE]
                 ELSE IF decoded.value.nil
                 THEN [status |-> 403, error |-> "Invalid or expired token",
                       user |-> Null, next |-> FALSE]
                 ELSE [status |-> 0, error |-> "", user |-> decoded.value,
                       next |-> TRUE]

(***************************************************************************)
(* Firestore documents                                                     *)
(***************************************************************************)
NoDoc == [exists |-> FALSE, name |-> Undef, price |-> Undef]

\* A query that looks at the first document only
UsersWithEmailFirst(us, email) ==
    {i \in 1..Len(us) : i = 1 /\ us[i].email = email}

\* The users collection is the sequence of its documents in the order queries
\* return them (the order of the generated document ids).
\* usersCollection.where('email', '==', email).get(): the matching positions
UsersWithEmail(us, email) == {i \in 1..Len(us) : us[i].email = email}

\* snapshot.docs[0]
FirstDoc(snapshot) == CHOOSE i \in snapshot : \A j \in snapshot : i <= j

\* A generated document id falls anywhere among the existing ones
InsertAt(us, k, doc) == SubSeq(us, 1, k - 1) \o <<doc>> \o SubSeq(us, k, Len(us))

\* A test that takes any string with a dot for an email
emailHasDot(v) == \E i \in 1..Len(ToStr(v)) : ToStr(v)[i] = "."

\* /^[^\s@]+@[^\s@]+\.[^\s@]+$/
emailRegexTest(v) ==
    LET cs == ToStr(v)
    IN  \E i \in 1..Len(cs), j \in 1..Len(cs) :
            /\ cs[i] = "@"
            /\ cs[j] = "."
            /\ 1 < i
            /\ i + 1 < j
            /\ j < Len(cs)
            /\ \A k \in (1..Len(cs)) \ {i} : ~IsSpace(cs[k]) /\ cs[k] # "@"

(***************************************************************************)
(* express-validator                                                       *)
(***************************************************************************)
RECURSIVE TrimLeft(_)
TrimLeft(cs) ==
    IF cs # <<>> /\ IsSpace(cs[1]) THEN TrimLeft(Tail(cs)) ELSE cs

RECURSIVE TrimRight(_)
TrimRight(cs) ==
    IF cs # <<>> /\ IsSpace(cs[Len(cs)])
    THEN TrimRight(SubSeq(cs, 1, Len(cs) - 1))
    ELSE cs

Trim(cs) == TrimRight(TrimLeft(cs))

AllDigits(cs) == \A i \in 1..Len(cs) : IsDigit(cs[i])

\* validator.isNumeric: /^[+-]?([0-9]*[.])?[0-9]+$/
IsNumeric(cs) ==
    LET body == IF cs # <<>> /\ cs[1] \in {"+", "-"} THEN Tail(cs) ELSE cs
    IN  \/ body # <<>> /\ AllDigits(body)
        \/ \E d \in 1..Len(body) :
              /\ body[d] = "."
              /\ AllDigits(SubSeq(body, 1, d - 1))
              /\ d < Len(body)
              /\ AllDigits(SubSeq(body, d + 1, Len(body)))

\* validator.isFloat(str, {min: 0}) on strings without a fractional part
IsFloatMin0(cs) == IsNumeric(cs) /\ ParseFloatStr(cs).n >= 0

\* body('name').notEmpty().trim().isLength({min: 1, max: 100}): every
\* validator of the chain runs
NameErrors(v) ==
    (IF ToStr(v) = <<>> THEN <<"Name is required">> ELSE <<>>)
    \o (IF Len(Trim(ToStr(v))) \in 1..MaxNameLength THEN <<>>
        ELSE <<"Name must be between 1 and 100 characters">>)

\* body('price').notEmpty().isNumeric().isFloat({min: 0})
PriceErrors(v) ==
    (IF ToStr(v) = <<>> THEN <<"Price is required">> ELSE <<>>)
    \o (IF IsNumeric(ToStr(v)) THEN <<>> ELSE <<"Price must be a number">>)
    \o (IF IsFloatMin0(ToStr(v)) THEN <<>>
        ELSE <<"Price must be a positive number">>)

itemValidation(name, price) == NameErrors(name) \o PriceErrors(price)

\* req.body.name as the handler reads it: on the routes of the MVC variant the
\* trim() sanitizer of the validation chain has rewritten it
BodyName(r) ==
    IF r.kind \in {"createItem", "updateItem"} /\ r.name.t # "undef"
    THEN Str(Trim(ToStr(r.name)))
    ELSE r.name

(***************************************************************************)
(* Requests in flight                                                      *)
(***************************************************************************)
\* The body of GET /items before it is built
NoList == [i \in ItemIds |-> NoDoc]

\* What the collection held under req.params.id when the request came in: the
\* document, a document deleted earlier, or nothing yet
Was(id) ==
    IF items[id].exists THEN "there"
    ELSE IF id < nextItemId THEN "gone"
    ELSE "never"

Idle ==
    [pc |-> "idle", kind |-> "none",
     auth |-> NoHeader, email |-> Undef, password |-> Undef,
     id |-> 0, name |-> Undef, price |-> Undef,
     user |-> Null, handler |-> FALSE, hashed |-> NoHash, found |-> 0,
     known |-> {}, at |-> 0,
     status |-> 0, error |-> "", errors |-> <<>>, token |-> NoToken,
     rid |-> 0, item |-> NoDoc, list |-> NoList, was |-> "",
     wrote |-> FALSE, gone |-> FALSE, fault |-> FALSE]

Respond(r, status, error) ==
    [r EXCEPT !.pc = "done", !.status = status, !.error = error]

\* A task takes the first free slot.  The requests received are bounded: at
\* most MaxAuthRequests when all are for the authentication endpoints, at most
\* MaxItemRequests when a request for an item endpoint is among them
CanStart(p, kind) ==
    /\ req[p].pc = "idle"
    /\ \A q \in Procs : q < p => req[q].pc # "idle"
    /\ nreq.auth + nreq.item <
           (IF kind = "item" \/ nreq.item > 0 THEN MaxItemRequests
            ELSE MaxAuthRequests)

Received(kind) ==
    nreq' = IF kind = "item" THEN [nreq EXCEPT !.item = @ + 1]
            ELSE [nreq EXCEPT !.auth = @ + 1]

Pending(kinds) == {q \in Procs : req[q].kind \in kinds}

\* The task p goes on as r: an answered request leaves its slot
Continue(p, r) ==
    IF r.pc = "done"
    THEN /\ last' = r
         /\ req' = [req EXCEPT ![p] = Idle]
    ELSE /\ req' = [req EXCEPT ![p] = r]
         /\ UNCHANGED last

\* A client keeps at most MaxTokens tokens
Keep(tok) ==
    \E drop \in issued \cup {tok} :
        issued' = IF Cardinality(issued \cup {tok}) <= MaxTokens
                  THEN issued \cup {tok}
                  ELSE (issued \cup {tok}) \ {drop}

(***************************************************************************)
(* The stores the server starts on: empty, or holding what an earlier run  *)
(* left there: an item and a user, who holds a token issued just now and   *)
(* one issued a day ago                                                    *)
(***************************************************************************)
EmailA == <<"a", "@", "b", ".", "c">>
EmailB == <<"d", "@", "b", ".", "c">>
EmailBad == <<"a", "b", ".", "c">>
EmailNoDot == <<"a", "@", "b", "c">>
Pw1 == <<"s", "e", "c", "r", "e", "t">>
Pw2 == <<"w", "r", "o", "n", "g", "!", "!">>
PwShort == <<"s", "h", "o", "r", "t">>

InitEmpty ==
    /\ users = <<>>
    /\ items = [i \in ItemIds |-> NoDoc]
    /\ nextItemId = 1
    /\ issued = {}
    /\ registered = {}

InitSeeded ==
    /\ users = <<[id |-> 1, email |-> Str(EmailA),
                   password |-> hashPassword(Pw1, 1)]>>
    /\ items = [i \in ItemIds |->
           IF i = 1
           THEN [exists |-> TRUE, name |-> Str(<<"A">>), price |-> Num(1)]
           ELSE NoDoc]
    /\ nextItemId = 2
    /\ issued = {generateToken(1, EmailA, 0),
                 generateToken(1, EmailA, 0 - JWT_EXPIRES_IN)}
    /\ registered = {[id |-> 1, email |-> Str(EmailA), password |-> Str(Pw1)]}

\* The same store after the user's document was removed from the collection
\* (the API has no route for that; the Firestore console has): the tokens
\* issued to the user are still with the client
InitOrphaned ==
    /\ users = <<>>
    /\ items = [i \in ItemIds |->
           IF i = 1
           THEN [exists |-> TRUE, name |-> Str(<<"A">>), price |-> Num(1)]
           ELSE NoDoc]
    /\ nextItemId = 2
    /\ issued = {generateToken(1, EmailA, 0),
                 generateToken(1, EmailA, 0 - JWT_EXPIRES_IN)}
    /\ registered = {}

(***************************************************************************)
(* The clients before anything is loaded in a browser                      *)
(***************************************************************************)
null == "null"

\* const response of a call that has none yet
NoCall == [fn |-> "none", pc |-> "idle", status |-> 0]

\* A store action that is not running
NoAct == [action |-> "none", pc |-> "idle", view |-> "none", live |-> FALSE]

\* No store action has returned yet
NoneFinished == [action |-> "none", view |-> "none", failed |-> FALSE]

PageClosed ==
    /\ authToken = null
    /\ currentUser = null
    /\ localStorage = [authToken |-> null, currentUser |-> null]
    /\ display = [authSection |-> "", userInfoSection |-> "",
                  mainSection |-> "", currentUserEmail |-> ""]
    /\ productsContainer = ""
    /\ alerted = <<>>
    /\ calls = [c \in 1..NumCalls |-> NoCall]

StoreUnused ==
    /\ storeItems = "[]"
    /\ isLoading = FALSE
    /\ storeError = null
    /\ unsubscribeFromItems = 0
    /\ listeners = {}
    /\ nextListener = 1
    /\ acts = [a \in 1..NumActs |-> NoAct]
    /\ route = "/"
    /\ errorMessage = ""
    /\ busy = {}
    /\ viewItem = FALSE
    /\ finished = NoneFinished

NoClient ==
    /\ PageClosed
    /\ StoreUnused

Quiet ==
    /\ now = 0
    /\ req = [p \in Procs |-> Idle]
    /\ last = Idle
    /\ nreq = [auth |-> 0, item |-> 0]
    /\ regOverlap = FALSE
    /\ failures = {}

Init ==
    /\ InitEmpty \/ InitSeeded
    /\ Quiet
    /\ NoClient

InitItems ==
    /\ InitSeeded
    /\ Quiet
    /\ NoClient

InitGuard ==
    /\ InitSeeded \/ InitOrphaned
    /\ Quiet
    /\ NoClient

(***************************************************************************)
(* What clients send                                                       *)
(***************************************************************************)
Credentials ==
    {<<Str(e), Str(pw)>> : e \in {EmailA, EmailB}, pw \in {Pw1, Pw2}}
    \cup {<<Undef, Str(Pw1)>>, <<Str(EmailA), Undef>>,
          <<Str(EmailBad), Str(Pw1)>>, <<Str(EmailA), Str(PwShort)>>,
          <<Str(EmailNoDot), Str(Pw1)>>}

\* A name one character longer than the validator allows
LongName == [i \in 1..(MaxNameLength + 1) |-> "n"]

Bodies ==
    {<<Str(<<n>>), Num(k)>> : n \in {"A", "B"}, k \in {1, 2}}
    \cup {<<Undef, Num(2)>>, <<Str(<<"B">>), Undef>>, <<Undef, Undef>>}
    \cup {<<Str(<<>>), Num(-5)>>, <<Str(<<"A">>), Num(0)>>,
          <<Str(<<"A">>), Num(-5)>>, <<Str(<<"A">>), Str(<<"x">>)>>}
    \cup {<<Str(<<" ", "C">>), Num(1)>>, <<Str(LongName), Num(1)>>}

\* The ids clients ask for: those handed out, and the next one (not there yet)
KnownIds == {i \in ItemIds : i <= nextItemId}

\* A token signed with a key that is not the server's
Forged(tok) == [tok EXCEPT !.sig = "not-the-server-key"]

Bearer(tok) == Hdr(<<W("Bearer"), SP, J(tok)>>)

\* Headers a client can build from the tokens it holds
AuthHeaders ==
    {NoHeader, Hdr(<<W("Bearer")>>), Hdr(<<W("Bearer"), SP>>),
     Hdr(<<W("Bearer"), SP, W("garbage")>>)}
    \cup {Bearer(t) : t \in issued}
    \cup {Hdr(<<W("Token"), SP, J(t)>>) : t \in issued}
    \cup {Bearer(Forged(t)) : t \in issued}

\* A guarded request: any header with one body, any body with a held token
\* that has not expired
ItemRequests ==
    {<<a, <<Str(<<"A">>), Num(1)>> >> : a \in AuthHeaders}
    \cup {<<Bearer(t), b>> : t \in {u \in issued : now < u.exp}, b \in Bodies}

(***************************************************************************)
(* POST /register                                                          *)
(***************************************************************************)
Register(p) ==
    /\ CanStart(p, "auth")
    /\ Received("auth")
    /\ regOverlap' = (regOverlap \/ Pending({"register"}) # {})
    /\ \E c \in Credentials :
       LET email == c[1]
           password == c[2]
           r == [Idle EXCEPT !.at = now, !.kind = "register", !.email = email,
                             !.password = password, !.handler = TRUE]
       IN  Continue(p,
               IF Falsy(email) \/ Falsy(password)
               THEN Respond(r, 400, "Email and password are required")
               ELSE IF ~emailRegexTest(email)
               THEN Respond(r, 400, "Invalid email format")
               ELSE IF Len(ToStr(password)) < MinPasswordLength
               THEN Respond(r, 400, "Password must be at least 6 characters long")
               ELSE [r EXCEPT !.pc = "reg_find"])
    /\ UNCHANGED <<users, items, nextItemId, issued, now, registered, failures>>
    /\ UNCHANGED clientVars

\* A registration that does not look for an existing user
RegisterFindNoCheck(p) ==
    /\ req[p].pc = "reg_find"
    /\ Continue(p, [req[p] EXCEPT !.pc = "reg_hash"])
    /\ UNCHANGED <<users, items, nextItemId, issued, now, nreq, regOverlap,
                   registered, failures>>
    /\ UNCHANGED clientVars

RegisterFind(p) ==
    /\ req[p].pc = "reg_find"
    /\ Continue(p,
           IF UsersWithEmail(users, req[p].email) # {}
           THEN Respond(req[p], 409, "User with this email already exists")
           ELSE [req[p] EXCEPT !.pc = "reg_hash"])
    /\ UNCHANGED <<users, items, nextItemId, issued, now, nreq, regOverlap,
                   registered, failures>>
    /\ UNCHANGED clientVars

RegisterHash(p, salt) ==
    /\ req[p].pc = "reg_hash"
    /\ Continue(p, [req[p] EXCEPT
           !.pc = "reg_add",
           !.hashed = hashPassword(ToStr(req[p].password), salt)])
    /\ UNCHANGED <<users, items, nextItemId, issued, now, nreq, regOverlap,
                   registered, failures>>
    /\ UNCHANGED clientVars

\* An insertion that refuses an email that is already there (a unique index)
RegisterAddUnique(p, k) ==
    /\ req[p].pc = "reg_add"
    /\ k \in 1..(Len(users) + 1)
    /\ LET newId == Len(users) + 1
           token == generateToken(newId, ToStr(req[p].email), now)
       IN  IF \E i \in 1..Len(users) : users[i].email = req[p].email
           THEN /\ k = 1
                /\ Continue(p, Respond(req[p], 409,
                                "User with this email already exists"))
                /\ UNCHANGED <<users, issued, registered>>
           ELSE /\ users' = InsertAt(users, k,
                        [id |-> newId, email |-> req[p].email,
                         password |-> req[p].hashed])
                /\ Keep(token)
                /\ Continue(p, [Respond(req[p], 201, "") EXCEPT
                                    !.token = token, !.rid = newId,
                                    !.wrote = TRUE])
                /\ registered' = registered \cup
                       {[id |-> newId, email |-> req[p].email,
                         password |-> req[p].password]}
    /\ UNCHANGED <<items, nextItemId, now, nreq, regOverlap, failures>>
    /\ UNCHANGED clientVars

\* usersCollection.add(newUser) resolves with a fresh document id, which puts
\* the document at place k of the collection
RegisterAdd(p, k) ==
    /\ req[p].pc = "reg_add"
    /\ k \in 1..(Len(users) + 1)
    /\ LET newId == Len(users) + 1
           token == generateToken(newId, ToStr(req[p].email), now)
       IN  /\ users' = InsertAt(users, k,
                   [id |-> newId, email |-> req[p].email,
                    password |-> req[p].hashed])
           /\ Keep(token)
           /\ Continue(p, [Respond(req[p], 201, "") EXCEPT !.token = token,
                                                           !.rid = newId,
                                                           !.wrote = TRUE])
           /\ registered' = registered \cup
                  {[id |-> newId, email |-> req[p].email,
                    password |-> req[p].password]}
    /\ UNCHANGED <<items, nextItemId, now, nreq, regOverlap, failures>>
    /\ UNCHANGED clientVars

(***************************************************************************)
(* POST /login                                                             *)
(***************************************************************************)
Login(p) ==
    /\ CanStart(p, "auth")
    /\ Received("auth")
    /\ \E c \in Credentials :
       LET email == c[1]
           password == c[2]
           r == [Idle EXCEPT !.at = now, !.kind = "login", !.email = email,
                             !.password = password, !.handler = TRUE,
                             !.known = {g.id : g \in
                                 {h \in registered : h.email = email}}]
       IN  Continue(p,
               IF Falsy(email) \/ Falsy(password)
               THEN Respond(r, 400, "Email and password are required")
               ELSE [r EXCEPT !.pc = "login_find"])
    /\ UNCHANGED <<users, items, nextItemId, issued, now, regOverlap,
                   registered, failures>>
    /\ UNCHANGED clientVars

\* A login that tells an unknown email apart
LoginFindRevealing(p) ==
    /\ req[p].pc = "login_find"
    /\ LET snapshot == UsersWithEmail(users, req[p].email)
           r == IF snapshot = {}
                THEN Respond(req[p], 404, "User not found")
                ELSE [req[p] EXCEPT !.pc = "login_compare",
                                    !.found = users[FirstDoc(snapshot)].id,
                                    !.hashed = users[FirstDoc(snapshot)].password]
       IN  /\ Continue(p, r)
           /\ failures' = IF snapshot = {}
                          THEN failures \cup {[cause |-> "no user",
                                               status |-> r.status,
                                               error |-> r.error]}
                          ELSE failures
    /\ UNCHANGED <<users, items, nextItemId, issued, now, nreq, regOverlap,
                   registered>>
    /\ UNCHANGED clientVars

\* snapshot.docs[0]: the first matching document
LoginFind(p) ==
    /\ req[p].pc = "login_find"
    /\ LET snapshot == UsersWithEmail(users, req[p].email)
           r == IF snapshot = {}
                THEN Respond(req[p], 401, "Invalid email or password")
                ELSE [req[p] EXCEPT !.pc = "login_compare",
                                    !.found = users[FirstDoc(snapshot)].id,
                                    !.hashed = users[FirstDoc(snapshot)].password]
       IN  /\ Continue(p, r)
           /\ failures' = IF snapshot = {}
                          THEN failures \cup {[cause |-> "no user",
                                               status |-> r.status,
                                               error |-> r.error]}
                          ELSE failures
    /\ UNCHANGED <<users, items, nextItemId, issued, now, nreq, regOverlap,
                   registered>>
    /\ UNCHANGED clientVars

LoginCompare(p) ==
    /\ req[p].pc = "login_compare"
    /\ LET passIsValid == comparePassword(ToStr(req[p].password), req[p].hashed)
           token == generateToken(req[p].found, ToStr(req[p].email), now)
           r == IF ~passIsValid
                THEN Respond(req[p], 401, "Invalid email or password")
                ELSE [Respond(req[p], 200, "") EXCEPT !.token = token,
                                                      !.rid = req[p].found]
       IN  /\ Continue(p, r)
           /\ IF passIsValid
              THEN Keep(token) /\ UNCHANGED failures
              ELSE /\ UNCHANGED issued
                   /\ failures' = failures \cup {[cause |-> "wrong password",
                                                  status |-> r.status,
                                                  error |-> r.error]}
    /\ UNCHANGED <<users, items, nextItemId, now, nreq, regOverlap, registered>>
    /\ UNCHANGED clientVars

(***************************************************************************)
(* GET /items (public)                                                     *)
(***************************************************************************)
GetItems(p) ==
    /\ CanStart(p, "item")
    /\ Received("item")
    /\ Continue(p, [Idle EXCEPT !.at = now, !.kind = "getItems",
                                !.handler = TRUE, !.pc = "list_get"])
    /\ UNCHANGED <<users, items, nextItemId, issued, now, regOverlap,
                   registered, failures>>
    /\ UNCHANGED clientVars

\* After itemsCollection.get(): every document with its id
GetItemsGet(p) ==
    /\ req[p].pc = "list_get"
    /\ Continue(p, [Respond(req[p], 200, "") EXCEPT !.list = items])
    /\ UNCHANGED <<users, items, nextItemId, issued, now, nreq, regOverlap,
                   registered, failures>>
    /\ UNCHANGED clientVars

(***************************************************************************)
(* GET /items/:id (public)                                                 *)
(***************************************************************************)
GetItem(p) ==
    /\ CanStart(p, "item")
    /\ Received("item")
    /\ \E id \in KnownIds :
       Continue(p, [Idle EXCEPT !.at = now, !.kind = "getItem", !.was = Was(id), !.id = id,
                                !.handler = TRUE, !.pc = "get_get"])
    /\ UNCHANGED <<users, items, nextItemId, issued, now, regOverlap,
                   registered, failures>>
    /\ UNCHANGED clientVars

\* A read that answers 200 whether or not the document exists
GetItemGetNoCheck(p) ==
    /\ req[p].pc = "get_get"
    /\ Continue(p, [Respond(req[p], 200, "") EXCEPT !.rid = req[p].id,
                                                    !.item = items[req[p].id]])
    /\ UNCHANGED <<users, items, nextItemId, issued, now, nreq, regOverlap,
                   registered, failures>>
    /\ UNCHANGED clientVars

GetItemGet(p) ==
    /\ req[p].pc = "get_get"
    /\ Continue(p,
           IF ~items[req[p].id].exists
           THEN Respond(req[p], 404, "Item not found")
           ELSE [Respond(req[p], 200, "") EXCEPT !.rid = req[p].id,
                                                 !.item = items[req[p].id]])
    /\ UNCHANGED <<users, items, nextItemId, issued, now, nreq, regOverlap,
                   registered, failures>>
    /\ UNCHANGED clientVars

(***************************************************************************)
(* Guarded routes: the guard runs first, in the same turn as the first     *)
(* part of the handler                                                     *)
(***************************************************************************)
\* The request after the guard: answered, or with req.user set and on its way
\* to the handler
Guarded(r) ==
    LET g == validateToken(r.auth, now)
    IN  IF ~g.next THEN Respond(r, g.status, g.error)
        ELSE [r EXCEPT !.user = g.user, !.handler = TRUE]

(***************************************************************************)
(* POST /items                                                             *)
(***************************************************************************)
PostItemStart(r) ==
    IF Falsy(r.name) \/ Falsy(r.price)
    THEN Respond(r, 400, "Name and price are required")
    ELSE [r EXCEPT !.pc = "post_add"]

PostItem(p) ==
    /\ CanStart(p, "item")
    /\ Received("item")
    /\ \E x \in ItemRequests :
       LET auth == x[1]
           name == x[2][1]
           price == x[2][2]
       IN
       Continue(p,
           LET g == Guarded([Idle EXCEPT !.at = now, !.kind = "postItem", !.auth = auth,
                            !.name = name, !.price = price])
           IN  IF g.pc = "done" THEN g ELSE PostItemStart(g))
    /\ UNCHANGED <<users, items, nextItemId, issued, now, regOverlap,
                   registered, failures>>
    /\ UNCHANGED clientVars

\* itemsCollection.add(newProduct) resolves with a fresh document id
PostItemAdd(p) ==
    /\ req[p].pc = "post_add"
    /\ items' = [items EXCEPT ![nextItemId] =
           [exists |-> TRUE, name |-> BodyName(req[p]),
            price |-> ParseFloat(req[p].price)]]
    /\ nextItemId' = nextItemId + 1
    /\ Continue(p, [Respond(req[p], 201, "") EXCEPT !.rid = nextItemId,
                                                    !.wrote = TRUE])
    /\ UNCHANGED <<users, issued, now, nreq, regOverlap, registered, failures>>
    /\ UNCHANGED clientVars

(***************************************************************************)
(* PUT /items/:id                                                          *)
(***************************************************************************)
\* updateData: only the fields the body provides
UpdateData(r) ==
    [hasName |-> r.name.t # "undef", name |-> BodyName(r),
     hasPrice |-> r.price.t # "undef",
     price |-> IF r.price.t # "undef" THEN ParseFloat(r.price) ELSE Undef]

\* docRef.update(updateData) on an existing document
ApplyUpdate(doc, upd) ==
    [exists |-> TRUE,
     name |-> IF upd.hasName THEN upd.name ELSE doc.name,
     price |-> IF upd.hasPrice THEN upd.price ELSE doc.price]

PutItemStart(r) == [r EXCEPT !.pc = "put_get"]

PutItem(p) ==
    /\ CanStart(p, "item")
    /\ Received("item")
    /\ \E x \in ItemRequests, id \in KnownIds :
       LET auth == x[1]
           name == x[2][1]
           price == x[2][2]
       IN
       Continue(p,
           LET g == Guarded([Idle EXCEPT !.at = now, !.kind = "putItem", !.was = Was(id), !.auth = auth,
                            !.id = id, !.name = name,
                            !.price = price])
           IN  IF g.pc = "done" THEN g ELSE PutItemStart(g))
    /\ UNCHANGED <<users, items, nextItemId, issued, now, regOverlap,
                   registered, failures>>
    /\ UNCHANGED clientVars

\* After docRef.get(): 404, or build updateData and call docRef.update, which
\* rejects an update without fields before anything is written
PutItemGet(p) ==
    /\ req[p].pc = "put_get"
    /\ Continue(p,
           IF ~items[req[p].id].exists
           THEN Respond(req[p], 404, "Item not found")
           ELSE IF ~UpdateData(req[p]).hasName /\ ~UpdateData(req[p]).hasPrice
           THEN Respond(req[p], 500, "Failed to update item")
           ELSE [req[p] EXCEPT !.pc = "put_update"])
    /\ UNCHANGED <<users, items, nextItemId, issued, now, nreq, regOverlap,
                   registered, failures>>
    /\ UNCHANGED clientVars

\* The write of docRef.update: fails when the document is gone
PutItemUpdate(p) ==
    /\ req[p].pc = "put_update"
    /\ IF ~items[req[p].id].exists
       THEN /\ Continue(p, Respond(req[p], 500, "Failed to update item"))
            /\ UNCHANGED items
       ELSE /\ items' = [items EXCEPT ![req[p].id] =
                   ApplyUpdate(items[req[p].id], UpdateData(req[p]))]
            /\ Continue(p, [req[p] EXCEPT !.pc = "put_reget", !.wrote = TRUE])
    /\ UNCHANGED <<users, nextItemId, issued, now, nreq, regOverlap,
                   registered, failures>>
    /\ UNCHANGED clientVars

\* updatedDoc = await docRef.get(); { id: updatedDoc.id, ...updatedDoc.data() }
PutItemReget(p) ==
    /\ req[p].pc = "put_reget"
    /\ Continue(p, [Respond(req[p], 200, "") EXCEPT !.rid = req[p].id,
                                                    !.item = items[req[p].id]])
    /\ UNCHANGED <<users, items, nextItemId, issued, now, nreq, regOverlap,
                   registered, failures>>
    /\ UNCHANGED clientVars

(***************************************************************************)
(* DELETE /items/:id                                                       *)
(***************************************************************************)
DeleteItemStart(r) == [r EXCEPT !.pc = "del_get"]

DeleteItem(p) ==
    /\ CanStart(p, "item")
    /\ Received("item")
    /\ \E auth \in AuthHeaders, id \in KnownIds :
       Continue(p,
           LET g == Guarded([Idle EXCEPT !.at = now, !.kind = "deleteItem", !.was = Was(id), !.auth = auth,
                            !.id = id])
           IN  IF g.pc = "done" THEN g ELSE DeleteItemStart(g))
    /\ UNCHANGED <<users, items, nextItemId, issued, now, regOverlap,
                   registered, failures>>
    /\ UNCHANGED clientVars

DeleteItemGet(p) ==
    /\ req[p].pc = "del_get"
    /\ Continue(p,
           IF ~items[req[p].id].exists
           THEN Respond(req[p], 404, "Item not found")
           ELSE [req[p] EXCEPT !.pc = "del_delete"])
    /\ UNCHANGED <<users, items, nextItemId, issued, now, nreq, regOverlap,
                   registered, failures>>
    /\ UNCHANGED clientVars

\* A delete that looks again and answers 404 when the document is gone
DeleteItemDeleteChecked(p) ==
    /\ req[p].pc = "del_delete"
    /\ IF items[req[p].id].exists
       THEN /\ items' = [items EXCEPT ![req[p].id] = NoDoc]
            /\ Continue(p, [Respond(req[p], 200, "") EXCEPT !.wrote = TRUE])
       ELSE /\ UNCHANGED items
            /\ Continue(p, Respond(req[p], 404, "Item not found"))
    /\ UNCHANGED <<users, nextItemId, issued, now, nreq, regOverlap,
                   registered, failures>>
    /\ UNCHANGED clientVars

\* docRef.delete() succeeds whether or not the document is still there (gone:
\* it was not)
DeleteItemDelete(p) ==
    /\ req[p].pc = "del_delete"
    /\ items' = [items EXCEPT ![req[p].id] = NoDoc]
    /\ Continue(p, [Respond(req[p], 200, "") EXCEPT
                        !.wrote = TRUE, !.gone = ~items[req[p].id].exists])
    /\ UNCHANGED <<users, nextItemId, issued, now, nreq, regOverlap,
                   registered, failures>>
    /\ UNCHANGED clientVars

(***************************************************************************)
(* The MVC variant: routes/items.js, validators/itemValidator.js and       *)
(* controllers/items.js.  After validation the controllers make the same   *)
(* store calls as the handlers of app.js (models/Item.js wraps them), so   *)
(* they go on with the same steps.                                         *)
(***************************************************************************)
createItemStart(r) ==
    IF itemValidation(r.name, r.price) # <<>>
    THEN [Respond(r, 400, "validation")
              EXCEPT !.errors = itemValidation(r.name, r.price)]
    ELSE [r EXCEPT !.pc = "post_add"]

createItem(p) ==
    /\ CanStart(p, "item")
    /\ Received("item")
    /\ \E x \in ItemRequests :
       LET auth == x[1]
           name == x[2][1]
           price == x[2][2]
       IN
       Continue(p,
           LET g == Guarded([Idle EXCEPT !.at = now, !.kind = "createItem", !.auth = auth,
                            !.name = name, !.price = price])
           IN  IF g.pc = "done" THEN g ELSE createItemStart(g))
    /\ UNCHANGED <<users, items, nextItemId, issued, now, regOverlap,
                   registered, failures>>
    /\ UNCHANGED clientVars

updateItemStart(r) ==
    IF itemValidation(r.name, r.price) # <<>>
    THEN [Respond(r, 400, "validation")
              EXCEPT !.errors = itemValidation(r.name, r.price)]
    ELSE [r EXCEPT !.pc = "put_get"]

updateItem(p) ==
    /\ CanStart(p, "item")
    /\ Received("item")
    /\ \E x \in ItemRequests, id \in KnownIds :
       LET auth == x[1]
           name == x[2][1]
           price == x[2][2]
       IN
       Continue(p,
           LET g == Guarded([Idle EXCEPT !.at = now, !.kind = "updateItem", !.was = Was(id), !.auth = auth,
                            !.id = id, !.name = name,
                            !.price = price])
           IN  IF g.pc = "done" THEN g ELSE updateItemStart(g))
    /\ UNCHANGED <<users, items, nextItemId, issued, now, regOverlap,
                   registered, failures>>
    /\ UNCHANGED clientVars

deleteItem(p) ==
    /\ CanStart(p, "item")
    /\ Received("item")
    /\ \E auth \in AuthHeaders, id \in KnownIds :
       Continue(p,
           LET g == Guarded([Idle EXCEPT !.at = now, !.kind = "deleteItemMvc", !.was = Was(id),
                            !.auth = auth, !.id = id])
           IN  IF g.pc = "done" THEN g ELSE DeleteItemStart(g))
    /\ UNCHANGED <<users, items, nextItemId, issued, now, regOverlap,
                   registered, failures>>
    /\ UNCHANGED clientVars

(***************************************************************************)
(* Failures: a call a handler awaits (a store call, bcrypt) rejects, or    *)
(* jwt.sign throws.  Every handler body is one try block whose catch       *)
(* answers 500 with the handler's message.                                 *)
(***************************************************************************)
FailureMessage(kind) ==
    CASE kind = "register" -> "Registration failed"
      [] kind = "login" -> "Authentication failed"
      [] kind = "getItems" -> "Failed to get items"
      [] kind = "getItem" -> "Failed to fetch item"
      [] kind \in {"postItem", "createItem"} -> "Failed to add item"
      [] kind \in {"putItem", "updateItem"} -> "Failed to update item"
      [] kind \in {"deleteItem", "deleteItemMvc"} -> "Failed to delete item"

\* A handler without its catch: the error reaches the default error handler of
\* Express
Uncaught(r) == [Respond(r, 500, "Internal Server Error") EXCEPT !.fault = TRUE]

\* catch (error) { res.status(500).json({ error: ... }) }
Caught(r) == [Respond(r, 500, FailureMessage(r.kind)) EXCEPT !.fault = TRUE]

\* The call the task p is waiting for rejects: nothing is written by it
CallFails(p) ==
    /\ req[p].pc # "idle"
    /\ Continue(p, Caught(req[p]))
    /\ UNCHANGED <<users, items, nextItemId, issued, now, nreq, regOverlap,
                   registered, failures>>
    /\ UNCHANGED clientVars

\* generateToken throws in POST /register: the user has been added
RegisterTokenFails(p, k) ==
    /\ req[p].pc = "reg_add"
    /\ k \in 1..(Len(users) + 1)
    /\ users' = InsertAt(users, k,
           [id |-> Len(users) + 1, email |-> req[p].email,
            password |-> req[p].hashed])
    /\ Continue(p, [Caught(req[p]) EXCEPT !.wrote = TRUE])
    /\ UNCHANGED <<items, nextItemId, issued, now, nreq, regOverlap,
                   registered, failures>>
    /\ UNCHANGED clientVars

\* generateToken throws in POST /login, after the password was found valid
LoginTokenFails(p) ==
    /\ req[p].pc = "login_compare"
    /\ comparePassword(ToStr(req[p].password), req[p].hashed)
    /\ Continue(p, Caught(req[p]))
    /\ UNCHANGED <<users, items, nextItemId, issued, now, nreq, regOverlap,
                   registered, failures>>
    /\ UNCHANGED clientVars

(***************************************************************************)
(* The browser client with authentication (CLIENT/js/main.js).  Each of    *)
(* its async functions runs from one await to the next without             *)
(* interruption; the server's answer is any status the route can give.     *)
(***************************************************************************)
\* if (!v): null and the empty string are falsy
Truthy(v) == v # null /\ v # ""

\* What a successful login or registration returns as data.token and data.user
DataTokens == {"token1", "token2"}
DataUsers == {"user1"}

\* JSON.stringify of a user object or of null
JSONstringify(v) ==
    CASE v = null -> "null"
      [] v = "user1" -> "{\"id\":\"1\",\"email\":\"a@b.c\"}"

\* JSON.parse of an entry of localStorage (getItem gives null when absent)
JSONparse(text) ==
    IF text = null THEN null
    ELSE CHOOSE u \in DataUsers : JSONstringify(u) = text

ItemStatuses == {200, 201, 400, 401, 403, 404, 500}
AuthStatuses == {200, 201, 400, 401, 404, 409, 500}

\* response.ok
Ok(status) == status \in 200..299

\* updateUIForAuth(): the three sections and the email shown
updateUIForAuth(shown, token, user) ==
    IF Truthy(token) /\ Truthy(user)
    THEN [authSection |-> "none", userInfoSection |-> "block",
          mainSection |-> "block", currentUserEmail |-> user]
    ELSE [authSection |-> "block", userInfoSection |-> "none",
          mainSection |-> "none", currentUserEmail |-> shown.currentUserEmail]

\* The page after DOMContentLoaded, with nothing or with an earlier session in
\* localStorage; with a token the products are being loaded
PageLoaded ==
    /\ \E token \in {null} \cup DataTokens :
           /\ localStorage =
                  [authToken |-> token,
                   currentUser |-> IF token = null THEN null
                                   ELSE JSONstringify("user1")]
           /\ calls = [c \in 1..NumCalls |->
                  IF c = 1 /\ Truthy(token)
                  THEN [fn |-> "getItems", pc |-> "getItems", status |-> 0]
                  ELSE NoCall]
    /\ authToken = localStorage.authToken
    /\ currentUser = JSONparse(localStorage.currentUser)
    /\ display = updateUIForAuth([currentUserEmail |-> ""], authToken,
                                 currentUser)
    /\ productsContainer = ""
    /\ alerted = <<>>

InitPage ==
    /\ InitEmpty
    /\ Quiet
    /\ PageLoaded
    /\ StoreUnused

\* A function is called while fewer than NumCalls calls are in flight
Free(c) ==
    /\ calls[c] = NoCall
    /\ \A d \in 1..(c - 1) : calls[d] # NoCall

Fetch(c, fn) == calls' = [calls EXCEPT ![c] = [fn |-> fn, pc |-> "fetch",
                                               status |-> 0]]

Finish(c) == calls' = [calls EXCEPT ![c] = NoCall]

\* logout() without the removal of the localStorage entries
logoutKeepStorage(before) ==
    /\ authToken' = null
    /\ currentUser' = null
    /\ localStorage' = localStorage
    /\ alerted' = before \o <<"Logged out successfully">>
    /\ display' = updateUIForAuth(display, null, null)

\* logout(), after the alerts the caller has raised
logout(before) ==
    /\ authToken' = null
    /\ currentUser' = null
    /\ localStorage' = [authToken |-> null, currentUser |-> null]
    /\ alerted' = before \o <<"Logged out successfully">>
    /\ display' = updateUIForAuth(display, null, null)

\* The logout button
LogoutClick ==
    /\ logout(<<>>)
    /\ UNCHANGED <<productsContainer, calls, serverVars, vueVars>>

login(c) ==
    /\ Free(c)
    /\ \E filled \in BOOLEAN :
           IF ~filled
           THEN /\ alerted' = <<"Please enter both email and password">>
                /\ UNCHANGED calls
           ELSE /\ Fetch(c, "login")
                /\ UNCHANGED alerted
    /\ UNCHANGED <<authToken, currentUser, localStorage, display,
                   productsContainer, serverVars, vueVars>>

register(c) ==
    /\ Free(c)
    /\ \E filled \in BOOLEAN :
           IF ~filled
           THEN /\ alerted' = <<"Please enter both email and password">>
                /\ UNCHANGED calls
           ELSE /\ Fetch(c, "register")
                /\ UNCHANGED alerted
    /\ UNCHANGED <<authToken, currentUser, localStorage, display,
                   productsContainer, serverVars, vueVars>>

addProduct(c) ==
    /\ Free(c)
    /\ \E filled \in BOOLEAN :
           IF ~Truthy(authToken)
           THEN /\ alerted' = <<"Please login first!">>
                /\ UNCHANGED calls
           ELSE IF ~filled
           THEN /\ alerted' = <<"Please enter both name and price">>
                /\ UNCHANGED calls
           ELSE /\ Fetch(c, "addProduct")
                /\ UNCHANGED alerted
    /\ UNCHANGED <<authToken, currentUser, localStorage, display,
                   productsContainer, serverVars, vueVars>>

updateProduct(c) ==
    /\ Free(c)
    /\ \E filled \in BOOLEAN :
           IF ~Truthy(authToken)
           THEN /\ alerted' = <<"Please login first!">>
                /\ UNCHANGED calls
           ELSE IF ~filled
           THEN /\ alerted' = <<"Please enter a product ID">>
                /\ UNCHANGED calls
           ELSE /\ Fetch(c, "updateProduct")
                /\ UNCHANGED alerted
    /\ UNCHANGED <<authToken, currentUser, localStorage, display,
                   productsContainer, serverVars, vueVars>>

\* confirmed: the answer to confirm()
deleteProduct(c) ==
    /\ Free(c)
    /\ \E filled \in BOOLEAN, confirmed \in BOOLEAN :
           IF ~Truthy(authToken)
           THEN /\ alerted' = <<"Please login first!">>
                /\ UNCHANGED calls
           ELSE IF ~filled
           THEN /\ alerted' = <<"Please enter a product ID">>
                /\ UNCHANGED calls
           ELSE IF ~confirmed
           THEN UNCHANGED <<alerted, calls>>
           ELSE /\ Fetch(c, "deleteProduct")
                /\ UNCHANGED alerted
    /\ UNCHANGED <<authToken, currentUser, localStorage, display,
                   productsContainer, serverVars, vueVars>>

\* catch (error) { alert(...) }
FailureAlert(fn) ==
    CASE fn = "login" -> "Login failed. Please try again."
      [] fn = "register" -> "Registration failed. Please try again."
      [] fn = "addProduct" -> "Failed to add product"
      [] fn = "updateProduct" -> "Failed to update product"
      [] fn = "deleteProduct" -> "Failed to delete product"

SuccessAlert(fn) ==
    CASE fn = "login" -> "Login successful!"
      [] fn = "register" -> "Registration successful!"
      [] fn = "addProduct" -> "Product added successfully!"
      [] fn = "updateProduct" -> "Product updated successfully!"
      [] fn = "deleteProduct" -> "Product deleted successfully!"

\* await fetch(...) resolves.  login, register and addProduct read the body
\* first; updateProduct and deleteProduct look at response.ok first
FetchResolves(c, status) ==
    /\ calls[c].pc = "fetch"
    /\ status \in IF calls[c].fn \in {"login", "register"} THEN AuthStatuses
                  ELSE ItemStatuses
    /\ IF calls[c].fn \in {"updateProduct", "deleteProduct"} /\ Ok(status)
       THEN /\ alerted' = <<SuccessAlert(calls[c].fn)>>
            /\ calls' = [calls EXCEPT ![c].pc = "getItems",
                                      ![c].status = status]
       ELSE /\ calls' = [calls EXCEPT ![c].pc = "json", ![c].status = status]
            /\ UNCHANGED alerted
    /\ UNCHANGED <<authToken, currentUser, localStorage, display,
                   productsContainer, serverVars, vueVars>>

\* await fetch(...) rejects (no answer from the server): the catch block
FetchRejects(c) ==
    /\ calls[c].pc = "fetch"
    /\ alerted' = <<FailureAlert(calls[c].fn)>>
    /\ Finish(c)
    /\ UNCHANGED <<authToken, currentUser, localStorage, display,
                   productsContainer, serverVars, vueVars>>

\* await response.json() resolves: the function looks at the status
JsonResolves(c) ==
    /\ calls[c].pc = "json"
    /\ LET fn == calls[c].fn
           status == calls[c].status
       IN  IF fn \in {"login", "register"}
           THEN IF Ok(status)
                THEN \E token \in DataTokens, user \in DataUsers :
                         /\ authToken' = token
                         /\ currentUser' = user
                         /\ localStorage' =
                                [authToken |-> token,
                                 currentUser |-> JSONstringify(user)]
                         /\ alerted' = <<SuccessAlert(fn)>>
                         /\ display' = updateUIForAuth(display, token, user)
                         /\ calls' = [calls EXCEPT ![c].pc = "getItems"]
                ELSE /\ alerted' = <<IF fn = "login" THEN "Login failed: "
                                     ELSE "Registration failed: ">>
                     /\ Finish(c)
                     /\ UNCHANGED <<authToken, currentUser, localStorage,
                                    display>>
           ELSE IF Ok(status)
           THEN /\ alerted' = <<SuccessAlert(fn)>>
                /\ calls' = [calls EXCEPT ![c].pc = "getItems"]
                /\ UNCHANGED <<authToken, currentUser, localStorage, display>>
           ELSE IF status = 401 \/ status = 403
           THEN /\ logout(<<"Session expired. Please login again.">>)
                /\ Finish(c)
           ELSE /\ alerted' = <<"Error: ">>
                /\ Finish(c)
                /\ UNCHANGED <<authToken, currentUser, localStorage, display>>
    /\ UNCHANGED <<productsContainer, serverVars, vueVars>>

\* await response.json() rejects: the body is not JSON, which is the case for
\* the 404 page Express sends for a path without a route
JsonRejects(c) ==
    /\ calls[c].pc = "json"
    /\ calls[c].status = 404
    /\ alerted' = <<FailureAlert(calls[c].fn)>>
    /\ Finish(c)
    /\ UNCHANGED <<authToken, currentUser, localStorage, display,
                   productsContainer, serverVars, vueVars>>

\* await getItems() returns: it shows the list or, on any failure, an error
GetItemsReturns(c) ==
    /\ calls[c].pc = "getItems"
    /\ \E shown \in {"products", "<p>No products available</p>",
                     "<p>Error loading products</p>"} :
           productsContainer' = shown
    /\ Finish(c)
    /\ UNCHANGED <<authToken, currentUser, localStorage, display, alerted,
                   serverVars, vueVars>>

NextPage ==
    \/ \E c \in 1..NumCalls : login(c)
    \/ \E c \in 1..NumCalls : register(c)
    \/ LogoutClick
    \/ \E c \in 1..NumCalls : addProduct(c)
    \/ \E c \in 1..NumCalls : updateProduct(c)
    \/ \E c \in 1..NumCalls : deleteProduct(c)
    \/ \E c \in 1..NumCalls, status \in ItemStatuses \cup AuthStatuses :
           FetchResolves(c, status)
    \/ \E c \in 1..NumCalls : FetchRejects(c)
    \/ \E c \in 1..NumCalls : JsonResolves(c)
    \/ \E c \in 1..NumCalls : JsonRejects(c)
    \/ \E c \in 1..NumCalls : GetItemsReturns(c)

\* The browser client against a server that gives any answer
SpecPage == InitPage /\ [][NextPage]_vars

(***************************************************************************)
(* The Vue client: the products store (stores/products.js, with the        *)
(* real-time listener of its later version) and the views that call it.    *)
(* A store action runs from one await to the next without interruption;    *)
(* when it returns, the view handler that awaited it goes on in the same   *)
(* turn.                                                                   *)
(***************************************************************************)
InitStore ==
    /\ InitEmpty
    /\ Quiet
    /\ PageClosed
    /\ StoreUnused

\* A subscription that does not look whether one is held already
subscribeToItemsAgain ==
    /\ nextListener <= MaxListeners
    /\ isLoading' = TRUE
    /\ storeError' = null
    /\ listeners' = listeners \cup {nextListener}
    /\ unsubscribeFromItems' = nextListener
    /\ nextListener' = nextListener + 1
    /\ UNCHANGED <<storeItems, acts, route, errorMessage, busy, viewItem,
                   finished, serverVars, pageVars>>

\* subscribeToItems(), called by the items view when it is mounted: onSnapshot
\* registers a listener and returns its unsubscribe function
subscribeToItems ==
    /\ nextListener <= MaxListeners
    /\ IF unsubscribeFromItems # 0
       THEN UNCHANGED <<isLoading, storeError, listeners, unsubscribeFromItems,
                        nextListener>>
       ELSE /\ isLoading' = TRUE
            /\ storeError' = null
            /\ listeners' = listeners \cup {nextListener}
            /\ unsubscribeFromItems' = nextListener
            /\ nextListener' = nextListener + 1
    /\ UNCHANGED <<storeItems, acts, route, errorMessage, busy, viewItem,
                   finished, serverVars, pageVars>>

\* unsubscribe(), called by the items view when it is unmounted
unsubscribe ==
    /\ IF unsubscribeFromItems # 0
       THEN /\ listeners' = listeners \ {unsubscribeFromItems}
            /\ unsubscribeFromItems' = 0
       ELSE UNCHANGED <<listeners, unsubscribeFromItems>>
    /\ UNCHANGED <<storeItems, isLoading, storeError, nextListener, acts,
                   route, errorMessage, busy, viewItem, finished, serverVars,
                   pageVars>>

\* The listener's first callback: a snapshot of the collection
SnapshotArrives(l) ==
    /\ l \in listeners
    /\ \E list \in {"[]", "list"} : storeItems' = list
    /\ isLoading' = FALSE
    /\ UNCHANGED <<storeError, unsubscribeFromItems, listeners, nextListener,
                   acts, route, errorMessage, busy, viewItem, finished,
                   serverVars, pageVars>>

\* The listener's second callback: the listen failed, and Firestore has
\* dropped the listener
SnapshotError(l) ==
    /\ l \in listeners
    /\ storeError' = "listen failed"
    /\ isLoading' = FALSE
    /\ listeners' = listeners \ {l}
    /\ UNCHANGED <<storeItems, unsubscribeFromItems, nextListener, acts, route,
                   errorMessage, busy, viewItem, finished, serverVars,
                   pageVars>>

FreeAct(a) ==
    /\ acts[a] = NoAct
    /\ \A b \in 1..(a - 1) : acts[b] # NoAct

\* The component shown is replaced: the handlers still waiting belong to a
\* component that is no longer mounted
Detached == [b \in 1..NumActs |-> [acts[b] EXCEPT !.live = FALSE]]

\* throw new Error('Failed to ...'), or the error of a fetch that got no answer
ErrorOf(action, outcome) ==
    IF outcome = "network" THEN "Failed to fetch"
    ELSE CASE action = "fetchItems" -> "Failed to fetch items."
           [] action = "fetchItem" -> "Failed to fetch item."
           [] action = "createItem" -> "Failed to create item."
           [] action = "updateItem" -> "Failed to update item."
           [] action = "deleteItem" -> "Failed to delete item."

\* The first lines of every store action, up to its fetch
Begin(a, action, view) ==
    /\ isLoading' = TRUE
    /\ storeError' = null
    /\ acts' = [acts EXCEPT ![a] = [action |-> action, pc |-> "fetch",
                                    view |-> view, live |-> view # "none"]]

\* fetchItems() called on its own
fetchItems(a) ==
    /\ FreeAct(a)
    /\ Begin(a, "fetchItems", "none")
    /\ UNCHANGED <<storeItems, unsubscribeFromItems, listeners, nextListener,
                   route, errorMessage, busy, viewItem, finished, serverVars,
                   pageVars>>

\* The user opens the create view
OpenCreate ==
    /\ route # "/items/create"
    /\ route' = "/items/create"
    /\ errorMessage' = ""
    /\ busy' = {}
    /\ viewItem' = FALSE
    /\ acts' = Detached
    /\ UNCHANGED <<storeItems, isLoading, storeError, unsubscribeFromItems,
                   listeners, nextListener, finished, serverVars, pageVars>>

\* The user opens the detail view of an item: onMounted calls fetchItem
onMounted(a) ==
    /\ FreeAct(a)
    /\ route # "/items/1"
    /\ route' = "/items/1"
    /\ errorMessage' = ""
    /\ busy' = {"mount"}
    /\ viewItem' = FALSE
    /\ isLoading' = TRUE
    /\ storeError' = null
    /\ acts' = [Detached EXCEPT ![a] = [action |-> "fetchItem", pc |-> "fetch",
                                        view |-> "mount", live |-> TRUE]]
    /\ UNCHANGED <<storeItems, unsubscribeFromItems, listeners, nextListener,
                   finished, serverVars, pageVars>>

\* ItemCreateView: the submit button is disabled while isLoading
handleSubmit(a) ==
    /\ FreeAct(a)
    /\ route = "/items/create"
    /\ "submit" \notin busy
    /\ busy' = busy \cup {"submit"}
    /\ errorMessage' = ""
    /\ Begin(a, "createItem", "submit")
    /\ UNCHANGED <<storeItems, unsubscribeFromItems, listeners, nextListener,
                   route, viewItem, finished, serverVars, pageVars>>

\* ItemDetailView: the form is there once the item is
handleUpdate(a) ==
    /\ FreeAct(a)
    /\ route = "/items/1"
    /\ viewItem
    /\ "update" \notin busy
    /\ busy' = busy \cup {"update"}
    /\ errorMessage' = ""
    /\ Begin(a, "updateItem", "update")
    /\ UNCHANGED <<storeItems, unsubscribeFromItems, listeners, nextListener,
                   route, viewItem, finished, serverVars, pageVars>>

handleDelete(a) ==
    /\ FreeAct(a)
    /\ route = "/items/1"
    /\ viewItem
    /\ "delete" \notin busy
    /\ \E confirmed \in BOOLEAN :
           IF confirmed
           THEN /\ busy' = busy \cup {"delete"}
                /\ errorMessage' = ""
                /\ Begin(a, "deleteItem", "delete")
           ELSE UNCHANGED <<busy, errorMessage, isLoading, storeError, acts>>
    /\ UNCHANGED <<storeItems, unsubscribeFromItems, listeners, nextListener,
                   route, viewItem, finished, serverVars, pageVars>>

\* The store action of slot a returns (it never throws: its catch keeps the
\* error in the store), and the handler that awaited it goes on: the create
\* and detail handlers call router.push('/items'); onMounted takes the item,
\* and fails on fetchedItem.name when fetchItem returned undefined
Returns(a, failed) ==
    LET r == acts[a]
        pushes == r.view \in {"submit", "update", "delete"}
        leaves == pushes /\ route # "/items"
    IN  /\ finished' = [action |-> r.action, view |-> r.view,
                        failed |-> failed]
        /\ route' = IF pushes THEN "/items" ELSE route
        /\ acts' = [(IF leaves THEN Detached ELSE acts) EXCEPT ![a] = NoAct]
        /\ IF leaves
           THEN /\ errorMessage' = ""
                /\ busy' = {}
                /\ viewItem' = FALSE
           ELSE IF ~r.live
           THEN UNCHANGED <<errorMessage, busy, viewItem>>
           ELSE /\ busy' = busy \ {r.view}
                /\ errorMessage' =
                       IF r.view = "mount" /\ failed
                       THEN "Cannot read properties of undefined"
                       ELSE errorMessage
                /\ viewItem' = IF r.view = "mount" THEN ~failed ELSE viewItem

Outcomes == {"ok", "status", "network"}

\* await fetch(...) of a store action settles: with an answer that is ok, with
\* one that is not, or with no answer
FetchSettles(a, outcome) ==
    /\ acts[a].pc = "fetch"
    /\ LET action == acts[a].action
       IN  IF outcome = "ok"
           THEN IF action \in {"fetchItems", "fetchItem"}
                THEN /\ acts' = [acts EXCEPT ![a].pc = "json"]
                     /\ UNCHANGED <<isLoading, storeError>>
                ELSE \* await fetchItems(): its first lines
                     /\ acts' = [acts EXCEPT ![a].pc = "refresh"]
                     /\ isLoading' = TRUE
                     /\ storeError' = null
           ELSE /\ storeError' = ErrorOf(action, outcome)
                /\ isLoading' = FALSE
                /\ Returns(a, TRUE)
    /\ storeItems' = IF outcome # "ok" /\ acts[a].action = "fetchItems"
                     THEN "[]" ELSE storeItems
    /\ IF outcome = "ok"
       THEN UNCHANGED <<route, errorMessage, busy, viewItem, finished>>
       ELSE TRUE
    /\ UNCHANGED <<unsubscribeFromItems, listeners, nextListener, serverVars,
                   pageVars>>

\* await response.json() of fetchItems or fetchItem settles
JsonSettles(a, parsed) ==
    /\ acts[a].pc = "json"
    /\ isLoading' = FALSE
    /\ IF parsed
       THEN /\ \E list \in {"[]", "list"} :
                   storeItems' = IF acts[a].action = "fetchItems" THEN list
                                 ELSE storeItems
            /\ UNCHANGED storeError
       ELSE /\ storeError' = "Unexpected token"
            /\ storeItems' = IF acts[a].action = "fetchItems" THEN "[]"
                             ELSE storeItems
    /\ Returns(a, ~parsed)
    /\ UNCHANGED <<unsubscribeFromItems, listeners, nextListener, serverVars,
                   pageVars>>

\* The fetch of the fetchItems() that createItem, updateItem and deleteItem
\* await after their own request went through
RefreshSettles(a, outcome) ==
    /\ acts[a].pc = "refresh"
    /\ IF outcome = "ok"
       THEN /\ acts' = [acts EXCEPT ![a].pc = "refresh_json"]
            /\ UNCHANGED <<storeItems, isLoading, storeError, route,
                           errorMessage, busy, viewItem, finished>>
       ELSE /\ storeError' = ErrorOf("fetchItems", outcome)
            /\ storeItems' = "[]"
            /\ isLoading' = FALSE
            /\ Returns(a, FALSE)
    /\ UNCHANGED <<unsubscribeFromItems, listeners, nextListener, serverVars,
                   pageVars>>

RefreshJsonSettles(a, parsed) ==
    /\ acts[a].pc = "refresh_json"
    /\ isLoading' = FALSE
    /\ IF parsed
       THEN /\ \E list \in {"[]", "list"} : storeItems' = list
            /\ UNCHANGED storeError
       ELSE /\ storeError' = "Unexpected token"
            /\ storeItems' = "[]"
    /\ Returns(a, FALSE)
    /\ UNCHANGED <<unsubscribeFromItems, listeners, nextListener, serverVars,
                   pageVars>>

NextStore ==
    \/ subscribeToItems
    \/ unsubscribe
    \/ \E l \in 1..MaxListeners : SnapshotArrives(l)
    \/ \E l \in 1..MaxListeners : SnapshotError(l)
    \/ \E a \in 1..NumActs : fetchItems(a)
    \/ OpenCreate
    \/ \E a \in 1..NumActs : onMounted(a)
    \/ \E a \in 1..NumActs : handleSubmit(a)
    \/ \E a \in 1..NumActs : handleUpdate(a)
    \/ \E a \in 1..NumActs : handleDelete(a)
    \/ \E a \in 1..NumActs, outcome \in Outcomes : FetchSettles(a, outcome)
    \/ \E a \in 1..NumActs, parsed \in BOOLEAN : JsonSettles(a, parsed)
    \/ \E a \in 1..NumActs, outcome \in Outcomes : RefreshSettles(a, outcome)
    \/ \E a \in 1..NumActs, parsed \in BOOLEAN : RefreshJsonSettles(a, parsed)

\* The Vue client against a server that gives any answer
SpecStore == InitStore /\ [][NextStore]_vars

(***************************************************************************)
(* Time passes                                                             *)
(***************************************************************************)
Tick ==
    /\ now + HourStep <= MaxTicks * HourStep
    /\ now' = now + HourStep
    /\ UNCHANGED <<users, items, nextItemId, issued, req, last, nreq,
                   regOverlap, registered, failures>>
    /\ UNCHANGED clientVars

\* The instants at which requests arrive around the end of a token's life: an
\* hour after the start, and an hour before, at and an hour after 24 hours
Instants ==
    {0, 1, JWT_EXPIRES_IN - 1, JWT_EXPIRES_IN, JWT_EXPIRES_IN + 1}

\* The clock moves on to a later one of these instants
Elapse ==
    /\ \E t \in Instants : now < t /\ now' = t
    /\ UNCHANGED <<users, items, nextItemId, issued, req, last, nreq,
                   regOverlap, registered, failures>>
    /\ UNCHANGED clientVars

NextAuth ==
    \/ \E p \in Procs : Register(p)
    \/ \E p \in Procs : RegisterFind(p)
    \/ \E p \in Procs, salt \in Salts : RegisterHash(p, salt)
    \/ \E p \in Procs, k \in 1..(MaxAuthRequests + 1) : RegisterAdd(p, k)
    \/ \E p \in Procs : Login(p)
    \/ \E p \in Procs : LoginFind(p)
    \/ \E p \in Procs : LoginCompare(p)

NextItems ==
    \/ \E p \in Procs : GetItems(p)
    \/ \E p \in Procs : GetItemsGet(p)
    \/ \E p \in Procs : GetItem(p)
    \/ \E p \in Procs : GetItemGet(p)
    \/ \E p \in Procs : PostItem(p)
    \/ \E p \in Procs : PostItemAdd(p)
    \/ \E p \in Procs : PutItem(p)
    \/ \E p \in Procs : PutItemGet(p)
    \/ \E p \in Procs : PutItemUpdate(p)
    \/ \E p \in Procs : PutItemReget(p)
    \/ \E p \in Procs : DeleteItem(p)
    \/ \E p \in Procs : DeleteItemGet(p)
    \/ \E p \in Procs : DeleteItemDelete(p)
    \/ \E p \in Procs : createItem(p)
    \/ \E p \in Procs : updateItem(p)
    \/ \E p \in Procs : deleteItem(p)

NextFaults ==
    \/ \E p \in Procs : CallFails(p)
    \/ \E p \in Procs, k \in 1..(MaxAuthRequests + 1) : RegisterTokenFails(p, k)
    \/ \E p \in Procs : LoginTokenFails(p)

\* Logging in and using the token on a guarded route, while time passes
NextGuard ==
    \/ \E p \in Procs : Login(p)
    \/ \E p \in Procs : LoginFind(p)
    \/ \E p \in Procs : LoginCompare(p)
    \/ \E p \in Procs : DeleteItem(p)
    \/ \E p \in Procs : DeleteItemGet(p)
    \/ \E p \in Procs : DeleteItemDelete(p)
    \/ Elapse

Next == NextAuth \/ NextItems \/ Tick

\* The whole API
Spec == Init /\ [][Next]_vars

\* The authentication endpoints alone
SpecAuth == Init /\ [][NextAuth]_vars

\* The whole API with calls that fail
SpecFaults == Init /\ [][NextAuth \/ NextItems \/ NextFaults]_vars

\* The guard over a day, with and without the token's user in the collection
SpecGuard == InitGuard /\ [][NextGuard]_vars

\* The item endpoints alone, on the store an earlier run left
SpecItems == InitItems /\ [][NextItems]_vars

TypeOK ==
    /\ now \in 0..(MaxTicks * HourStep) \cup Instants
    /\ \A p \in Procs : req[p].pc # "done"
    /\ nreq.auth + nreq.item <= MaxAuthRequests + MaxItemRequests
    /\ nextItemId \in 1..(MaxItemRequests + 2)
    /\ Len(users) <= MaxAuthRequests + 1
    /\ Cardinality(issued) <= MaxTokens

(***************************************************************************)
(* Properties.  What a request carried is read off the request itself, not *)
(* through the guard's own helpers.                                        *)
(***************************************************************************)
GuardedKinds ==
    {"postItem", "putItem", "deleteItem", "createItem", "updateItem",
     "deleteItemMvc"}
PostKinds == {"postItem", "createItem"}
PutKinds == {"putItem", "updateItem"}

\* The requests answered last or still in flight
Requests == {last} \cup {req[p] : p \in Procs}
GuardedRequests == {r \in Requests : r.kind \in GuardedKinds}

\* Position of the first space of a header, 0 when it has none
FirstSpace(h) ==
    IF \E i \in 1..Len(h.atoms) : h.atoms[i].a = "sp"
    THEN CHOOSE i \in 1..Len(h.atoms) :
             /\ h.atoms[i].a = "sp"
             /\ \A j \in 1..(i - 1) : h.atoms[j].a # "sp"
    ELSE 0

\* What stands between the first space and the next one (or the end)
AfterFirstSpace(h) ==
    LET rest == SubSeq(h.atoms, FirstSpace(h) + 1, Len(h.atoms))
        stop == IF \E i \in 1..Len(rest) : rest[i].a = "sp"
                THEN CHOOSE i \in 1..Len(rest) :
                         /\ rest[i].a = "sp"
                         /\ \A j \in 1..(i - 1) : rest[j].a # "sp"
                ELSE Len(rest) + 1
    IN  SubSeq(rest, 1, stop - 1)

NoCredential(h) ==
    \/ ~h.present
    \/ FirstSpace(h) = 0
    \/ AfterFirstSpace(h) = <<>>

Malformed(seg) == Len(seg) # 1 \/ seg[1].a # "jwt"
BadSignature(seg) == ~Malformed(seg) /\ seg[1].tok.sig # JWT_SECRET
Expired(seg, t) == ~Malformed(seg) /\ seg[1].tok.exp <= t

\* The header carries a token that the server signed and that has not expired
Verified(h, t) ==
    /\ ~NoCredential(h)
    /\ ~Malformed(AfterFirstSpace(h))
    /\ ~BadSignature(AfterFirstSpace(h))
    /\ ~Expired(AfterFirstSpace(h), t)

\* A body the specification calls valid: non-empty name of at most 100
\* characters, numeric price >= 0
SpecValidBody(name, price) ==
    /\ name.t = "str"
    /\ name.s # <<>>
    /\ Len(name.s) <= MaxNameLength
    /\ price.t = "num"
    /\ price.n >= 0

(***************************************************************************)
(* C1: the items collection changes only as the effect of a POST, PUT or   *)
(* DELETE on /items whose bearer token verified; a request answered 401 or *)
(* 403 leaves it unchanged; a request with a fresh valid token and a valid *)
(* body is answered 201.                                                   *)
(***************************************************************************)
C1_OnlyVerifiedWrites ==
    [][items' # items =>
          \E p \in Procs :
              /\ req[p].kind \in GuardedKinds
              /\ req[p].pc \in {"post_add", "put_update", "del_delete"}
              /\ Verified(req[p].auth, req[p].at)
              /\ req[p].user = Payload(AfterFirstSpace(req[p].auth)[1].tok)
              /\ req'[p] # req[p]]_vars

C1_RejectedLeavesItems ==
    [][(last' # last /\ last'.kind \in GuardedKinds
            /\ last'.status \in {401, 403}) => items' = items]_vars

C1_ValidAnswered201 ==
    [](last.kind \in PostKinds /\ Verified(last.auth, last.at)
           /\ SpecValidBody(last.name, last.price)
       => last.status = 201)

\* C1: only verified POST/PUT/DELETE requests change the items collection,
\* rejected requests leave it unchanged, and a valid POST is answered 201
C1_AuthGate ==
    /\ C1_OnlyVerifiedWrites
    /\ C1_RejectedLeavesItems
    /\ C1_ValidAnswered201

(***************************************************************************)
(* C2: on a guarded route a request without an Authorization header, or    *)
(* with a header without a token segment after the first space, is         *)
(* answered 401 with the same body; the handler does not run and no        *)
(* identity is attached.                                                   *)
(***************************************************************************)
C2_MissingCredential ==
    \A r \in GuardedRequests :
        NoCredential(r.auth) =>
            /\ r.pc = "done"
            /\ r.status = 401
            /\ r.error = "No token found"
            /\ ~r.handler
            /\ r.user = Null

C2_Witness ==
    /\ last.kind \in GuardedKinds
    /\ last.auth = Hdr(<<W("Bearer"), SP>>)
    /\ last.status = 401

(***************************************************************************)
(* C3: on a guarded route a request whose token segment is present but     *)
(* malformed, signed with another key or expired is answered 403, never    *)
(* 401 or 500; the handler does not run.                                   *)
(***************************************************************************)
C3_InvalidToken ==
    \A r \in GuardedRequests :
        LET seg == AfterFirstSpace(r.auth)
        IN  (~NoCredential(r.auth)
                 /\ (Malformed(seg) \/ BadSignature(seg) \/ Expired(seg, r.at)))
            => /\ r.pc = "done"
               /\ r.status = 403
               /\ r.error = "Invalid or expired token"
               /\ ~r.handler
               /\ r.user = Null

C3_Witness ==
    /\ last.kind \in GuardedKinds
    /\ ~NoCredential(last.auth)
    /\ Expired(AfterFirstSpace(last.auth), last.at)
    /\ ~BadSignature(AfterFirstSpace(last.auth))
    /\ AfterFirstSpace(last.auth)[1].tok.iat >= 0
    /\ last.status = 403

(***************************************************************************)
(* C4: a request entering the guard ends in exactly one of: 401 (no        *)
(* token), 403 (invalid token), continue.  It continues to the handler iff *)
(* the token verified, and then the identity attached is the decoded       *)
(* payload of the token.                                                   *)
(***************************************************************************)
C4_GuardOutcomes ==
    \A r \in GuardedRequests :
        /\ r.handler <=> Verified(r.auth, r.at)
        /\ r.handler =>
               /\ r.user = Payload(AfterFirstSpace(r.auth)[1].tok)
               /\ r.status \notin {401, 403}
        /\ ~r.handler =>
               /\ r.pc = "done"
               /\ r.user = Null
               /\ r.status = IF NoCredential(r.auth) THEN 401 ELSE 403

C4_Witness ==
    /\ last.kind \in GuardedKinds
    /\ last.handler
    /\ last.user = Payload(generateToken(1, EmailA, 0))
    /\ last.status \in {200, 201}

(***************************************************************************)
(* C5: when no two registrations overlap, no two user records have the     *)
(* same email.                                                             *)
(***************************************************************************)
C5_UniqueEmails ==
    ~regOverlap =>
        \A i, j \in 1..Len(users) :
            i # j => users[i].email # users[j].email

C5_Witness ==
    /\ ~regOverlap
    /\ Len(users) >= 2
    /\ last.kind = "register"
    /\ last.status = 409

(***************************************************************************)
(* C6: a registration that has passed the existence check inserts its      *)
(* record and is answered 201 whatever the collection holds by then, so    *)
(* two overlapping registrations for one email both insert and are both    *)
(* answered 201.                                                           *)
(***************************************************************************)
C6_InsertsWithoutRecheck ==
    [][\A p \in Procs :
           (req[p].pc = "reg_add" /\ req'[p] # req[p]) =>
               /\ Len(users') = Len(users) + 1
               /\ \E i \in 1..Len(users') :
                      /\ users'[i].email = req[p].email
                      /\ users'[i].id = last'.rid
               /\ last'.kind = "register"
               /\ last'.email = req[p].email
               /\ last'.status = 201]_vars

\* Two records with one email, each created by a registration answered 201
C6_Witness ==
    \E i, j \in 1..Len(users) :
        /\ i # j
        /\ users[i].email = users[j].email
        /\ \E g, h \in registered :
               /\ g.id = users[i].id
               /\ h.id = users[j].id
               /\ g.id # h.id
               /\ g.email = h.email
        /\ regOverlap

(***************************************************************************)
(* C7: POST /register with a well-formed email that already has a user     *)
(* record answers 409 without hashing the password or creating a record:   *)
(* the users collection is unchanged and no token is issued.               *)
(***************************************************************************)
C7_Conflict ==
    [][\A p \in Procs :
           (/\ req[p].pc = "reg_find"
            /\ req'[p] # req[p]
            /\ \E i \in 1..Len(users) : users[i].email = req[p].email) =>
               /\ last'.kind = "register"
               /\ last'.email = req[p].email
               /\ last'.status = 409
               /\ last'.hashed = NoHash
               /\ last'.token = NoToken
               /\ req'[p] = Idle
               /\ users' = users
               /\ issued' = issued
               /\ registered' = registered]_vars

C7_Witness ==
    /\ last.kind = "register"
    /\ last.status = 409
    /\ last.error = "User with this email already exists"
    /\ \E i \in 1..Len(users) : users[i].email = last.email

(***************************************************************************)
(* C8: POST /login answers 401 with the same body when the email has no    *)
(* user record and when the password is wrong.                             *)
(***************************************************************************)
C8_SameFailure ==
    \A a, b \in failures :
        /\ a.status = 401
        /\ a.status = b.status
        /\ a.error = b.error

C8_Witness ==
    \E a, b \in failures :
        /\ a.cause = "no user"
        /\ b.cause = "wrong password"

(***************************************************************************)
(* C9: after a registration answered 201 for (e, p), with no other         *)
(* registration for e, a login with (e, p) is answered 200 with a token    *)
(* whose email is e and whose userId is the id returned at registration,   *)
(* and a login with e and another password is answered 401.                *)
(***************************************************************************)
C9_LoginAfterRegister ==
    \A g \in registered :
        (/\ last.kind = "login"
         /\ last.email = g.email
         /\ g.id \in last.known
         /\ \A h \in registered : h.email = g.email => h = g
         /\ Cardinality({i \in 1..Len(users) : users[i].email = g.email}) = 1
         /\ last.password.t = "str"
         /\ last.password.s # <<>>)
        => IF last.password = g.password
           THEN /\ last.status = 200
                /\ last.token.email = g.email.s
                /\ last.token.userId = g.id
                /\ last.token.sig = JWT_SECRET
           ELSE /\ last.status = 401
                /\ last.token = NoToken

C9_Witness ==
    /\ last.kind = "login"
    /\ last.email = Str(EmailB)
    /\ last.known # {}
    /\ last.status = 200
    /\ last.token.email = EmailB

(***************************************************************************)
(* C10: PUT /items/:id is a merge-patch: the keys present in the body are  *)
(* overwritten, absent keys keep their value, the price is stored as a     *)
(* number; for the item {name: "A", price: 1} an authenticated PUT         *)
(* {price: 2} is answered 200 and yields {name: "A", price: 2}.            *)
(***************************************************************************)
C10_Merge ==
    [][\A p \in Procs :
           (/\ req[p].kind \in PutKinds
            /\ req[p].pc = "put_update"
            /\ req'[p] # req[p]
            /\ items[req[p].id].exists) =>
               LET old == items[req[p].id]
                   new == items'[req[p].id]
               IN  /\ new.exists
                   /\ req[p].name.t = "undef" => new.name = old.name
                   /\ req[p].price.t = "undef" => new.price = old.price
                   /\ req[p].price.t # "undef" => new.price.t \in {"num", "nan"}
                   /\ req[p].price.t = "num" => new.price = req[p].price
                   /\ \A i \in ItemIds \ {req[p].id} : items'[i] = items[i]]_vars

C10_Example ==
    [](/\ last.kind \in PutKinds
       /\ Verified(last.auth, last.at)
       /\ nreq.item = 1
       /\ last.id = 1
       /\ last.name = Undef
       /\ last.price = Num(2)
       => /\ last.status = 200
          /\ items[1] = [exists |-> TRUE, name |-> Str(<<"A">>),
                         price |-> Num(2)]
          /\ last.item = items[1])

\* C10: PUT /items/:id overwrites only the keys of the body, on both routes
C10_MergePatch ==
    /\ C10_Merge
    /\ C10_Example

\* A response was sent in this step by a request of one of the kinds
Answers(kinds) == last' # last /\ last'.kind \in kinds

\* A record appears in the items collection only by the insertion of a POST
OnlyPostCreates ==
    \A i \in ItemIds :
        (~items[i].exists /\ items'[i].exists) =>
            \E p \in Procs :
                /\ req[p].kind \in PostKinds
                /\ req[p].pc = "post_add"
                /\ req'[p] # req[p]

\* A PUT body the specification allows: each of name and price is left out or
\* valid
PartialValidBody(name, price) ==
    /\ name.t = "undef"
           \/ (name.t = "str" /\ name.s # <<>> /\ Len(name.s) <= MaxNameLength)
    /\ price.t = "undef" \/ (price.t = "num" /\ price.n >= 0)

(***************************************************************************)
(* C11: an authenticated PUT /items/:id for an id that is not in the items *)
(* collection is answered 404 and leaves the collection unchanged; an      *)
(* update never creates a record.                                          *)
(***************************************************************************)
C11_AbsentPut404 ==
    [][/\ (Answers(PutKinds) /\ Verified(last'.auth, last'.at)
               /\ PartialValidBody(last'.name, last'.price)
               /\ last'.was # "there" /\ ~items[last'.id].exists)
           => (last'.status = 404 /\ items' = items)
       /\ OnlyPostCreates]_vars

\* What does hold for a PUT of an absent id: nothing is changed or created, and
\* the answer is 404 unless the validated route has answered 400 first
AbsentPutUnchanged ==
    [][/\ (Answers(PutKinds) /\ Verified(last'.auth, last'.at)
               /\ last'.was # "there" /\ ~items[last'.id].exists)
           => /\ items' = items
              /\ last'.item = NoDoc
              /\ last'.status =
                     IF last'.kind = "updateItem"
                            /\ ~SpecValidBody(last'.name, last'.price)
                     THEN 400 ELSE 404
       /\ OnlyPostCreates]_vars

DeleteKinds == {"deleteItem", "deleteItemMvc"}
ByIdKinds == {"getItem"} \cup PutKinds \cup DeleteKinds

\* The delete of a DELETE request removes its document, answers 200 and leaves
\* the other documents alone; a removed document never comes back
DeleteRemoves ==
    /\ \A p \in Procs :
           (req[p].pc = "del_delete" /\ req'[p] # req[p]) =>
               /\ last'.kind \in DeleteKinds
               /\ last'.status = 200
               /\ ~items'[req[p].id].exists
               /\ \A i \in ItemIds \ {req[p].id} : items'[i] = items[i]
    /\ \A i \in ItemIds :
           (i < nextItemId /\ ~items[i].exists) => ~items'[i].exists

(***************************************************************************)
(* C12: after an authenticated DELETE /items/:id of an existing id is      *)
(* answered 200 the item is gone: every later GET, PUT or DELETE of that   *)
(* id is answered 404, and all other items are unchanged.                  *)
(***************************************************************************)
C12_DeletionFinal ==
    [][/\ DeleteRemoves
       /\ (Answers(ByIdKinds) /\ last'.was = "gone"
               /\ (last'.kind \in GuardedKinds => Verified(last'.auth, last'.at))
               /\ (last'.kind \in PutKinds =>
                       PartialValidBody(last'.name, last'.price)))
           => (last'.status = 404 /\ items' = items)]_vars

\* What does hold after a delete: a later GET or DELETE of the id is answered
\* 404, and so is a later PUT unless the validated route has answered 400
\* first
GoneStaysGone ==
    [][/\ DeleteRemoves
       /\ (Answers(ByIdKinds) /\ last'.was = "gone"
               /\ (last'.kind \in GuardedKinds => Verified(last'.auth, last'.at)))
           => /\ items' = items
              /\ last'.status =
                     IF last'.kind = "updateItem"
                            /\ ~SpecValidBody(last'.name, last'.price)
                     THEN 400 ELSE 404]_vars

\* A DELETE repeated after it was answered 200 is answered 404
RepeatedDelete ==
    /\ last.kind \in DeleteKinds
    /\ last.was = "gone"
    /\ Verified(last.auth, last.at)
    /\ last.status = 404

\* A stored record changes only by the update of a PUT or the delete of a
\* DELETE of its id
OnlyPutDeleteChange ==
    \A i \in ItemIds :
        (items[i].exists /\ items'[i] # items[i]) =>
            \E p \in Procs :
                /\ req[p].id = i
                /\ req[p].pc \in {"put_update", "del_delete"}
                /\ req'[p] # req[p]

\* GET /items/:id of a stored record answers 200 with the id and the record
GetReturnsStored ==
    \A p \in Procs :
        (req[p].pc = "get_get" /\ req'[p] # req[p] /\ items[req[p].id].exists) =>
            /\ last'.kind = "getItem"
            /\ last'.status = 200
            /\ last'.rid = req[p].id
            /\ last'.item = items[req[p].id]

(***************************************************************************)
(* C13: an authenticated POST /items with a valid {name, price} is         *)
(* answered 201 with the new id only, and a following GET /items/:id of    *)
(* that id, with no update or delete of it in between, returns the id with *)
(* the submitted name and price.                                           *)
(***************************************************************************)
C13_RoundTrip ==
    [][/\ (Answers(PostKinds) /\ Verified(last'.auth, last'.at)
               /\ SpecValidBody(last'.name, last'.price))
           => /\ last'.status = 201
              /\ last'.item = NoDoc
              /\ last'.rid \in ItemIds
              /\ ~items[last'.rid].exists
              /\ items'[last'.rid] = [exists |-> TRUE, name |-> last'.name,
                                      price |-> last'.price]
       /\ OnlyPutDeleteChange
       /\ GetReturnsStored]_vars

\* What does hold: a POST answered 201 returns the new id only and has stored
\* the submitted price as a number and the submitted name, without its
\* surrounding white space on the validated route
CreatedAsSanitized ==
    [][/\ (Answers(PostKinds) /\ last'.status = 201)
           => /\ last'.item = NoDoc
              /\ last'.rid \in ItemIds
              /\ ~items[last'.rid].exists
              /\ items'[last'.rid].exists
              /\ items'[last'.rid].name =
                     IF last'.kind = "createItem"
                     THEN Str(Trim(last'.name.s)) ELSE last'.name
              /\ last'.price.t = "num" => items'[last'.rid].price = last'.price
       /\ OnlyPutDeleteChange
       /\ GetReturnsStored]_vars

(***************************************************************************)
(* C14: an authenticated POST /items is accepted exactly when name is      *)
(* present, non-empty and at most 100 characters and price is present,     *)
(* numeric and >= 0 (0 included); every other body is answered 400 before  *)
(* the repository is touched, and the items collection is unchanged.       *)
(***************************************************************************)
C14_AcceptedIffValid ==
    [][(Answers(PostKinds) /\ Verified(last'.auth, last'.at)) =>
           IF SpecValidBody(last'.name, last'.price)
           THEN last'.status = 201
           ELSE /\ last'.status = 400
                /\ nreq' # nreq
                /\ items' = items
                /\ nextItemId' = nextItemId]_vars

\* What does hold: the validated route accepts exactly the valid bodies
ValidatedCreate ==
    [][(Answers({"createItem"}) /\ Verified(last'.auth, last'.at)) =>
           IF SpecValidBody(last'.name, last'.price)
           THEN last'.status = 201
           ELSE /\ last'.status = 400
                /\ nreq' # nreq
                /\ items' = items
                /\ nextItemId' = nextItemId]_vars

\* A record as the specification wants it: non-empty name, price >= 0
ValidRecord(doc) ==
    /\ doc.name.t = "str"
    /\ doc.name.s # <<>>
    /\ doc.price.t = "num"
    /\ doc.price.n >= 0

(***************************************************************************)
(* C15: after any sequence of requests every record of the items           *)
(* collection has a price >= 0 and a non-empty name.                       *)
(***************************************************************************)
C15_RecordsValid ==
    \A i \in ItemIds : items[i].exists => ValidRecord(items[i])

\* What does hold: what the validated routes write is a valid record
ValidatedWrites ==
    [][\A p \in Procs :
           (/\ req[p].kind \in {"createItem", "updateItem"}
            /\ req[p].pc \in {"post_add", "put_update"}
            /\ req'[p] # req[p]
            /\ items' # items)
           => \E i \in ItemIds :
                  /\ items'[i] # items[i]
                  /\ ValidRecord(items'[i])]_vars

\* The messages of the validation chain, by the field they are about
NameMessages ==
    {"Name is required", "Name must be between 1 and 100 characters"}
PriceMessages ==
    {"Price is required", "Price must be a number",
     "Price must be a positive number"}

\* The list of errors of a response names the field
NamesField(errors, messages) ==
    \E k \in 1..Len(errors) : errors[k] \in messages

(***************************************************************************)
(* C16: item validation collects all violations and returns them together: *)
(* an authenticated POST /items {name: "", price: -5} is answered 400 with *)
(* a list of field-level errors naming both the empty name and the         *)
(* negative price.                                                         *)
(***************************************************************************)
C16_AllViolationsListed ==
    [][(Answers(PostKinds) /\ Verified(last'.auth, last'.at)
            /\ last'.name = Str(<<>>) /\ last'.price = Num(-5))
       => /\ last'.status = 400
          /\ NamesField(last'.errors, NameMessages)
          /\ NamesField(last'.errors, PriceMessages)
          /\ items' = items]_vars

\* What does hold: the validated route lists an error for each field that is
\* invalid, and for no other
ValidatedListsAll ==
    [][(Answers({"createItem"}) /\ Verified(last'.auth, last'.at)) =>
           LET nameOk == /\ last'.name.t = "str"
                         /\ last'.name.s # <<>>
                         /\ Len(last'.name.s) <= MaxNameLength
               priceOk == last'.price.t = "num" /\ last'.price.n >= 0
           IN  /\ NamesField(last'.errors, NameMessages) <=> ~nameOk
               /\ NamesField(last'.errors, PriceMessages) <=> ~priceOk
               /\ last'.status = 400 <=> last'.errors # <<>>]_vars

ReadKinds == {"getItems", "getItem"}

\* The store still holds what the read r reported
AsReported(r) ==
    IF r.kind = "getItems" THEN r.list = items
    ELSE \/ r.status = 200 /\ r.item = items[r.id]
         \/ r.status = 404 /\ ~items[r.id].exists

MutatingKinds == {"register"} \cup PostKinds \cup PutKinds \cup DeleteKinds

\* The request of the task p as it is after the step
After(p) == IF req'[p].pc = "idle" THEN last' ELSE req'[p]

\* The set of user records
UserSet(us) == {us[i] : i \in 1..Len(us)}

(***************************************************************************)
(* C18: no partial success: for every mutating request (register, create,  *)
(* update, delete item), a failure status means the request has left the   *)
(* store as it was, and a success status means its change is applied.      *)
(***************************************************************************)
C18_NoPartialSuccess ==
    [][/\ \A p \in Procs :
              req'[p] # req[p] =>
                  \* wrote: the request has made its write to the store
                  /\ (req[p].wrote \/ users' # users \/ items' # items)
                         => After(p).wrote
                  \* a change is one whole record
                  /\ users' # users =>
                         /\ UserSet(users) \subseteq UserSet(users')
                         /\ \E u \in UserSet(users') \ UserSet(users) :
                                /\ u.email = req[p].email
                                /\ comparePassword(req[p].password.s, u.password)
                         /\ items' = items
                  /\ items' # items =>
                         \E i \in ItemIds :
                             /\ \A j \in ItemIds \ {i} : items'[j] = items[j]
                             /\ req[p].kind \in PostKinds =>
                                    ~items[i].exists /\ items'[i].exists
                             /\ req[p].kind \in PutKinds =>
                                    /\ i = req[p].id
                                    /\ items[i].exists /\ items'[i].exists
                             /\ req[p].kind \in DeleteKinds =>
                                    i = req[p].id /\ ~items'[i].exists
       /\ Answers(MutatingKinds) =>
              /\ last'.status >= 400 => ~last'.wrote
              /\ last'.status \in {200, 201} => last'.wrote]_vars

HttpStatuses == {200, 201, 400, 401, 403, 404, 409, 500}

\* The bodies the handlers' catch blocks send
GenericMessages ==
    {"Registration failed", "Authentication failed", "Failed to get items",
     "Failed to fetch item", "Failed to add item", "Failed to update item",
     "Failed to delete item"}

\* r and q are the same request
SameRequest(r, q) ==
    /\ r.kind = q.kind
    /\ r.at = q.at
    /\ r.auth = q.auth
    /\ r.email = q.email
    /\ r.password = q.password
    /\ r.id = q.id
    /\ r.name = q.name
    /\ r.price = q.price

(***************************************************************************)
(* C19: every request gets exactly one response with one HTTP status,      *)
(* whatever step fails: a failing store call, hash or token issuance is    *)
(* caught in the handler and answered 500 with the handler's generic       *)
(* message; no error leaves the handler.                                   *)
(***************************************************************************)
C19_OneResponse ==
    [][/\ \A p \in Procs :
              req'[p] # req[p] =>
                  \* the step is of this request alone; it goes on unanswered
                  \* or ends with its one response
                  /\ \A q \in Procs \ {p} : req'[q] = req[q]
                  /\ req[p].status = 0
                  /\ IF req'[p].pc = "idle"
                     THEN /\ SameRequest(req[p], last')
                          /\ last'.pc = "done"
                          /\ last'.status \in HttpStatuses
                     ELSE /\ last' = last
                          /\ req'[p].status = 0
                          /\ req[p].pc # "idle" => SameRequest(req[p], req'[p])
       /\ last' # last =>
              /\ last'.pc = "done"
              /\ last'.status \in HttpStatuses
              /\ last'.fault =>
                     /\ last'.status = 500
                     /\ last'.error \in GenericMessages
              /\ last'.status = 500 => last'.error \in GenericMessages]_vars

\* A PUT answered 500 because the re-read after its update failed
C19_Witness ==
    /\ last.kind \in PutKinds
    /\ last.fault
    /\ last.wrote
    /\ last.status = 500
    /\ last.error = "Failed to update item"

\* One @ with something before it, and after it a domain with a dot that has
\* something on both sides; no white space
WellFormedEmail(cs) ==
    /\ Cardinality({i \in 1..Len(cs) : cs[i] = "@"}) = 1
    /\ \A i \in 1..Len(cs) : cs[i] \notin {" ", "\t", "\n"}
    /\ LET at == CHOOSE i \in 1..Len(cs) : cs[i] = "@"
       IN  /\ at > 1
           /\ \E d \in (at + 2)..(Len(cs) - 1) : cs[d] = "."

Missing(v) == v.t = "undef" \/ v = Str(<<>>)

InvalidRegistration(email, password) ==
    \/ Missing(email)
    \/ Missing(password)
    \/ ~WellFormedEmail(email.s)
    \/ Len(password.s) < 6

(***************************************************************************)
(* C20: POST /register with a missing email or password, an email that     *)
(* does not match the pattern, or a password shorter than 6 characters is  *)
(* answered 400 before any read or write of the users collection: the      *)
(* collection is unchanged, nothing is hashed and no token is issued.      *)
(***************************************************************************)
C20_RegisterValidation ==
    [][(Answers({"register"})
            /\ InvalidRegistration(last'.email, last'.password))
       => /\ last'.status = 400
          /\ nreq' # nreq
          /\ req' = req
          /\ users' = users
          /\ issued' = issued
          /\ registered' = registered
          /\ last'.hashed = NoHash
          /\ last'.token = NoToken]_vars

C20_Witness ==
    /\ last.kind = "register"
    /\ last.email = Str(EmailNoDot)
    /\ last.status = 400
    /\ last.error = "Invalid email format"
    /\ users # <<>>

\* The token of a request, when its header carries one that the server signed
ServerToken(h) ==
    /\ ~NoCredential(h)
    /\ ~Malformed(AfterFirstSpace(h))
    /\ AfterFirstSpace(h)[1].tok.sig = JWT_SECRET

(***************************************************************************)
(* C21: a token lives 24 hours from its issuance and is never renewed: the *)
(* guard accepts a token issued at t at every time before t + 24 and       *)
(* answers 403 at every time after t + 24.                                 *)
(***************************************************************************)
C21_TokenLifetime ==
    /\ \A tok \in issued : tok.exp = tok.iat + 24
    /\ \A r \in GuardedRequests :
           ServerToken(r.auth) =>
               LET tok == AfterFirstSpace(r.auth)[1].tok
               IN  /\ r.at < tok.iat + 24 =>
                          /\ r.handler
                          /\ r.user.userId = tok.userId
                          /\ r.status \notin {401, 403}
                   /\ r.at > tok.iat + 24 =>
                          /\ r.pc = "done"
                          /\ r.status = 403
                          /\ ~r.handler

\* A token issued at the start is accepted an hour before its end, on a request
\* still in flight, and refused an hour after it
C21_Witness ==
    \E p \in Procs :
        /\ req[p].kind \in GuardedKinds
        /\ req[p].at = 23
        /\ req[p].handler
        /\ ServerToken(req[p].auth)
        /\ AfterFirstSpace(req[p].auth)[1].tok.iat = 0
        /\ last.kind \in GuardedKinds
        /\ last.auth = req[p].auth
        /\ last.at = 25
        /\ last.status = 403

\* What the signature and the expiry of the header's token alone decide: 0 to
\* let the request through, or the status of the refusal
BySignatureAndExpiry(h, t) ==
    IF NoCredential(h) THEN 401
    ELSE IF ~ServerToken(h) THEN 403
    ELSE IF AfterFirstSpace(h)[1].tok.exp <= t THEN 403
    ELSE 0

HasUser(id) == \E i \in 1..Len(users) : users[i].id = id

(***************************************************************************)
(* C22: the guard's decision depends only on the signature and the expiry  *)
(* of the token, never on the users collection: runs that differ only in   *)
(* the users collection give the same outcome, and an unexpired, validly   *)
(* signed token is accepted also when no user has its userId.              *)
(***************************************************************************)
C22_GuardIgnoresUsers ==
    \A r \in GuardedRequests :
        LET outcome == BySignatureAndExpiry(r.auth, r.at)
        IN  /\ r.handler <=> outcome = 0
            /\ ~r.handler => r.pc = "done" /\ r.status = outcome
            /\ (outcome = 0 /\ ~HasUser(AfterFirstSpace(r.auth)[1].tok.userId))
                   => r.user.userId = AfterFirstSpace(r.auth)[1].tok.userId

\* A DELETE is carried out for a token whose user is not in the collection
C22_Witness ==
    /\ last.kind \in GuardedKinds
    /\ ServerToken(last.auth)
    /\ ~HasUser(AfterFirstSpace(last.auth)[1].tok.userId)
    /\ last.handler
    /\ last.status = 200
    /\ last.wrote

(***************************************************************************)
(* C23: whenever PUT /items/:id responds 200, under any interleaving with  *)
(* other requests, the body is the full record as stored after the update: *)
(* the id together with the item's name and price.                         *)
(***************************************************************************)
C23_PutReturnsRecord ==
    [][(Answers(PutKinds) /\ last'.status = 200)
       => /\ last'.rid = last'.id
          /\ last'.item.exists
          /\ last'.item.name # Undef
          /\ last'.item.price # Undef
          /\ last'.item = items'[last'.id]]_vars

\* What does hold: the body of a 200 is what the second read finds under the
\* id, and that is a full record unless the document was deleted between the
\* update and the second read
PutReturnsSecondRead ==
    [][(Answers(PutKinds) /\ last'.status = 200)
       => /\ last'.rid = last'.id
          /\ last'.wrote
          /\ last'.item = items[last'.id]
          /\ items[last'.id].exists
                 => last'.item.name # Undef /\ last'.item.price # Undef]_vars

(***************************************************************************)
(* C24: the existence check and the write of DELETE /items/:id are a read, *)
(* a decision and a write without atomicity: a DELETE passes its check iff *)
(* the document is there when it reads, and once past the check it deletes *)
(* and answers 200 whether or not the document is still there, so two      *)
(* overlapping DELETEs of one existing id can both answer 200.             *)
(***************************************************************************)
C24_DeleteRace ==
    [][\A p \in Procs :
          /\ (req[p].pc = "del_get" /\ req'[p] # req[p])
                 => IF items[req[p].id].exists
                    THEN req'[p].pc = "del_delete" /\ last' = last
                    ELSE req'[p].pc = "idle" /\ last'.status = 404
          /\ (req[p].pc = "del_delete" /\ req'[p] # req[p])
                 => /\ req'[p].pc = "idle"
                    /\ last'.kind \in DeleteKinds
                    /\ last'.id = req[p].id
                    /\ last'.status = 200
                    /\ last'.gone <=> ~items[req[p].id].exists
                    /\ ~items'[req[p].id].exists]_vars

\* The second of two overlapping DELETEs has answered 200: the document was
\* there when it came in and when it looked, and gone when it deleted
C24_Witness ==
    /\ last.kind \in DeleteKinds
    /\ last.was = "there"
    /\ last.status = 200
    /\ last.gone
    /\ nreq.item = 2

(***************************************************************************)
(* C27: in every reachable state, also one reached through overlapping     *)
(* registrations, every user whose registration was answered 201 can log   *)
(* in: a login with that user's email and password is answered 200 with a  *)
(* token carrying that user's own id.                                      *)
(***************************************************************************)
C27_RegisteredCanLogIn ==
    \A g \in registered :
        (/\ last.kind = "login"
         /\ g.id \in last.known
         /\ last.email = g.email
         /\ last.password = g.password)
        => /\ last.status = 200
           /\ last.token.userId = g.id
           /\ last.rid = g.id

ProtectedCalls == {"addProduct", "updateProduct", "deleteProduct"}

LoggedOut ==
    /\ authToken = null
    /\ currentUser = null
    /\ localStorage.authToken = null
    /\ localStorage.currentUser = null
    /\ display.authSection = "block"
    /\ display.mainSection = "none"

(***************************************************************************)
(* C25: in the browser client, whenever addProduct, updateProduct or       *)
(* deleteProduct receives a 401 or 403 response, the client ends logged    *)
(* out: authToken and currentUser are null, both localStorage entries are  *)
(* removed, the auth section is shown and the main section hidden; with    *)
(* authToken null these three functions send no request.                   *)
(***************************************************************************)
C25_SessionExpiry ==
    [][\A c \in 1..NumCalls :
          /\ (/\ calls[c].fn \in ProtectedCalls
              /\ calls[c].status \in {401, 403}
              /\ calls'[c] # calls[c])
                 => /\ calls'[c] = NoCall
                    /\ LoggedOut'
          /\ (/\ calls'[c].fn \in ProtectedCalls
              /\ calls'[c].pc = "fetch"
              /\ calls[c].pc # "fetch")
                 => authToken # null
          /\ (authToken = null /\ calls[c].fn \notin ProtectedCalls)
                 => calls'[c].fn \notin ProtectedCalls]_vars

\* A session taken from localStorage has ended on a 401 or 403
C25_Witness ==
    /\ alerted = <<"Session expired. Please login again.",
                   "Logged out successfully">>
    /\ LoggedOut
    /\ display.currentUserEmail = "user1"

(***************************************************************************)
(* C26: after any sequence of subscribeToItems and unsubscribe calls on    *)
(* the products store at most one snapshot listener is registered:         *)
(* subscribeToItems while subscribed registers nothing, after unsubscribe  *)
(* no listener remains, and a later subscribeToItems registers exactly one *)
(* again.                                                                  *)
(***************************************************************************)
C26_OneListener ==
    /\ [](/\ Cardinality(listeners) <= 1
          /\ unsubscribeFromItems = 0 => listeners = {}
          /\ unsubscribeFromItems # 0 => listeners \subseteq {unsubscribeFromItems})
    /\ [][/\ unsubscribeFromItems # 0 => listeners' \subseteq listeners
          /\ (unsubscribeFromItems # 0 /\ unsubscribeFromItems' = 0)
                 => listeners' = {}
          /\ (unsubscribeFromItems = 0 /\ unsubscribeFromItems' # 0)
                 => /\ listeners' = {unsubscribeFromItems'}
                    /\ unsubscribeFromItems' = nextListener]_vars

\* The second listener is registered, after the first was unsubscribed, and is
\* the only one
C26_Witness ==
    /\ unsubscribeFromItems = 2
    /\ listeners = {2}
    /\ nextListener = 3

InFlight == \E a \in 1..NumActs : acts[a] # NoAct

(***************************************************************************)
(* C29: the products store's isLoading flag is true whenever at least one  *)
(* of its actions (fetchItems, fetchItem, createItem, updateItem,          *)
(* deleteItem) is still in flight, also when several overlap, and false    *)
(* once all of them have completed, whether they succeeded or failed.      *)
(***************************************************************************)
C29_LoadingWhileInFlight ==
    [][acts' # acts => (isLoading' <=> InFlight')]_vars

\* What does hold: every action sets the flag when it starts and clears it when
\* it returns, whatever else is in flight
LoadingSetAndCleared ==
    [][\A a \in 1..NumActs :
          /\ (acts[a] = NoAct /\ acts'[a] # NoAct) => isLoading'
          /\ (acts[a] # NoAct /\ acts'[a] = NoAct) => ~isLoading']_vars

ViewHandlers == {"submit", "update", "delete"}

(***************************************************************************)
(* C30: in the create-item and item-detail views, the view navigates to    *)
(* /items only when the store's create, update or delete request           *)
(* succeeded; when the request fails (an answer that is not 2xx, or no     *)
(* answer) the view stays on the page and shows the error message.         *)
(***************************************************************************)
C30_NavigateOnSuccessOnly ==
    [][\A a \in 1..NumActs :
          (acts[a].view \in ViewHandlers /\ acts[a].live /\ acts'[a] = NoAct)
              => IF finished'.failed
                 THEN route' = route /\ errorMessage' # ""
                 ELSE route' = "/items"]_vars

\* What does hold: the handler navigates to /items whenever the store action
\* returns, failed or not, and the view never shows a message of its own
AlwaysNavigates ==
    [][\A a \in 1..NumActs :
          (acts[a].view \in ViewHandlers /\ acts'[a] = NoAct)
              => route' = "/items" /\ errorMessage' = ""]_vars

\* The header from its first space on: all of it but the first segment
AfterScheme(h) ==
    IF FirstSpace(h) = 0 THEN <<>>
    ELSE SubSeq(h.atoms, FirstSpace(h), Len(h.atoms))

\* Two headers that differ at most in their first segment
SameButScheme(g, h) ==
    /\ g.present /\ h.present
    /\ g.atoms # <<>> /\ h.atoms # <<>>
    /\ AfterScheme(g) = AfterScheme(h)

SchemeWords == {"Bearer", "Token", "Basic"}

\* The header with word w as its first segment
WithScheme(h, w) == Hdr(<<W(w)>> \o AfterScheme(h))

\* What the guard did with a request: the identity it let through, or the
\* status of its refusal
GuardOutcome(r) ==
    IF r.handler THEN [next |-> TRUE, status |-> 0, user |-> r.user]
    ELSE [next |-> FALSE, status |-> r.status, user |-> Null]

(***************************************************************************)
(* C28: the guard takes the second space-separated segment of the          *)
(* Authorization header as the token and does not check the scheme word:   *)
(* two requests received at the same time whose headers differ only in the *)
(* first segment get the same guard outcome, and the outcome of a request  *)
(* is the one the guard gives to its header under any other scheme word.   *)
(***************************************************************************)
C28_SchemeNotChecked ==
    /\ \A r, s \in GuardedRequests :
           (SameButScheme(r.auth, s.auth) /\ r.at = s.at)
               => GuardOutcome(r) = GuardOutcome(s)
    /\ \A r \in GuardedRequests :
           (r.auth.present /\ r.auth.atoms # <<>>) =>
               \A w \in SchemeWords :
                   LET g == validateToken(WithScheme(r.auth, w), r.at)
                   IN  GuardOutcome(r) =
                           [next |-> g.next, status |-> g.status,
                            user |-> g.user]

\* A request with the scheme word Token and one with Bearer carry the same
\* token at the same time, and both are let through
C28_Witness ==
    \E p, q \in Procs :
        /\ req[p].kind \in GuardedKinds /\ req[q].kind \in GuardedKinds
        /\ req[p].auth.atoms[1] = W("Token")
        /\ req[q].auth.atoms[1] = W("Bearer")
        /\ SameButScheme(req[p].auth, req[q].auth)
        /\ req[p].at = req[q].at
        /\ req[p].handler /\ req[q].handler
        /\ req[p].user = req[q].user
        /\ ~req[p].user.nil

====
